---- MODULE Spec2Model ----
(***************************************************************************)
(* Hybrid key custody and transaction signing of photonbot-turnkey:        *)
(* the envelope key service (services/kmsService.js and its Python peer),  *)
(* the create-session route (routes/login.js), the signing-method resolver *)
(* and signer (api.py) and the recovery overlay (commands/recovery.py,     *)
(* utils/user_access.py), all sharing one relational store.                *)
(*                                                                         *)
(* Text is a sequence of one-character strings; bytes are 0..255.          *)
(* Time is counted in hours on one clock shared by both services.          *)
(* A log line is the sequence of the values written by one call; a value   *)
(* made by a template string is the sequence of its fixed and interpolated *)
(* parts.                                                                  *)
(***************************************************************************)
EXTENDS Integers, Sequences, FiniteSets, TLC

VARIABLES
   users,        \* table users: telegram_id -> row
   wallets,      \* table turnkey_wallets: a set of rows
   now,          \* the clock, in hours
   nodeEnv,      \* process.env.NODE_ENV of the Node.js service
   signReq,      \* the /api/sign request in flight, or Idle
   createReq,    \* the create-session requests in flight, per slot
   issued,       \* number of sessions the custody authority has issued
   resp,         \* the reply sent by the step just taken, if any
   log,          \* the lines the latest step wrote to the service log
   turnkeySent,  \* the requests the latest step sent to the custody authority
   kmsOp,        \* the envelope key service round trip under trial
   botReq        \* the bot handlers in flight, per command

vars == << users, wallets, now, nodeEnv, signReq, createReq, issued, resp, log,
           turnkeySent, kmsOp, botReq >>

-----------------------------------------------------------------------------
(* Bounds of the model *)

MaxTime == 3

MaxKeyLen == 2

MaxSessions == 2

-----------------------------------------------------------------------------
(* Values shared by the whole model *)

NULL == "NULL"               \* SQL NULL / None in an identifier or flag column

NullText == << "NULL" >>     \* SQL NULL / None in a text column

NullTime == -1               \* SQL NULL / None in a timestamp column

Undefined == "undefined"     \* JavaScript undefined (an unset setting, a missing field)

UndefinedText == << "undefined" >>

Range(f) == { f[i] : i \in DOMAIN f }

RECURSIVE Rep(_, _)
Rep(c, n) == IF n = 0 THEN << >> ELSE << c >> \o Rep(c, n - 1)

-----------------------------------------------------------------------------
(* Character codes: Buffer.from(text, 'utf-8') and toString('utf-8') on    *)
(* printable ASCII (code 96 is kept as a named placeholder).              *)

AsciiPrintable ==
   << " ", "!", "\"", "#", "$", "%", "&", "'", "(", ")", "*", "+", ",", "-", ".", "/",
      "0", "1", "2", "3", "4", "5", "6", "7", "8", "9", ":", ";", "<", "=", ">", "?",
      "@", "A", "B", "C", "D", "E", "F", "G", "H", "I", "J", "K", "L", "M", "N", "O",
      "P", "Q", "R", "S", "T", "U", "V", "W", "X", "Y", "Z", "[", "\\", "]", "^", "_",
      "grave", "a", "b", "c", "d", "e", "f", "g", "h", "i", "j", "k", "l", "m", "n", "o",
      "p", "q", "r", "s", "t", "u", "v", "w", "x", "y", "z", "{", "|", "}", "~" >>

CharCode == [ c \in Range(AsciiPrintable) |->
                31 + (CHOOSE i \in DOMAIN AsciiPrintable : AsciiPrintable[i] = c) ]

Utf8Encode(text) == [ i \in 1..Len(text) |-> CharCode[text[i]] ]

Utf8Decode(bytes) == [ i \in 1..Len(bytes) |-> AsciiPrintable[bytes[i] - 31] ]

IsPrintable(bytes) == \A i \in 1..Len(bytes) : bytes[i] \in 32..126

-----------------------------------------------------------------------------
(* Base64: Buffer.toString('base64') / Buffer.from(s, 'base64') and        *)
(* base64.b64decode.                                                       *)

Base64Alphabet ==
   << "A", "B", "C", "D", "E", "F", "G", "H", "I", "J", "K", "L", "M", "N", "O", "P",
      "Q", "R", "S", "T", "U", "V", "W", "X", "Y", "Z", "a", "b", "c", "d", "e", "f",
      "g", "h", "i", "j", "k", "l", "m", "n", "o", "p", "q", "r", "s", "t", "u", "v",
      "w", "x", "y", "z", "0", "1", "2", "3", "4", "5", "6", "7", "8", "9", "+", "/" >>

Base64Chars == Range(Base64Alphabet)

B64Code == [ c \in Base64Chars |->
               (CHOOSE i \in DOMAIN Base64Alphabet : Base64Alphabet[i] = c) - 1 ]

B64Index(c) == B64Code[c]

B64Char(n) == Base64Alphabet[n + 1]

RECURSIVE Base64Encode(_)
Base64Encode(bytes) ==
   IF Len(bytes) = 0 THEN << >>
   ELSE IF Len(bytes) = 1 THEN
      << B64Char(bytes[1] \div 4), B64Char((bytes[1] % 4) * 16), "=", "=" >>
   ELSE IF Len(bytes) = 2 THEN
      << B64Char(bytes[1] \div 4),
         B64Char((bytes[1] % 4) * 16 + bytes[2] \div 16),
         B64Char((bytes[2] % 16) * 4), "=" >>
   ELSE
      << B64Char(bytes[1] \div 4),
         B64Char((bytes[1] % 4) * 16 + bytes[2] \div 16),
         B64Char((bytes[2] % 16) * 4 + bytes[3] \div 64),
         B64Char(bytes[3] % 64) >>
      \o Base64Encode(SubSeq(bytes, 4, Len(bytes)))

IsBase64(text) ==
   /\ Len(text) % 4 = 0
   /\ \A i \in 1..Len(text) :
         \/ text[i] \in Base64Chars
         \/ text[i] = "=" /\ i >= Len(text) - 1
                    /\ (i = Len(text) - 1 => text[Len(text)] = "=")

RECURSIVE Base64Decode(_)
Base64Decode(text) ==
   IF Len(text) < 4 THEN << >>
   ELSE
      LET a == B64Index(text[1])
          b == B64Index(text[2])
          b1 == a * 4 + b \div 16
      IN IF text[3] = "=" THEN << b1 >>
         ELSE LET c == B64Index(text[3])
                  b2 == (b % 16) * 16 + c \div 4
              IN IF text[4] = "=" THEN << b1, b2 >>
                 ELSE << b1, b2, (c % 4) * 64 + B64Index(text[4]) >>
                      \o Base64Decode(SubSeq(text, 5, Len(text)))

-----------------------------------------------------------------------------
(* JSON.stringify / JSON.parse / json.loads on an object whose members are *)
(* strings.  A member whose value is undefined is left out by stringify.   *)

RECURSIVE JsonEscape(_)
JsonEscape(text) ==
   IF Len(text) = 0 THEN << >>
   ELSE (IF Head(text) \in { "\"", "\\" } THEN << "\\", Head(text) >>
         ELSE << Head(text) >>) \o JsonEscape(Tail(text))

JsonString(text) == << "\"" >> \o JsonEscape(text) \o << "\"" >>

RECURSIVE JsonMembers(_, _)
JsonMembers(members, first) ==
   IF Len(members) = 0 THEN << >>
   ELSE LET m == Head(members)
        IN IF m[2] = UndefinedText
           THEN JsonMembers(Tail(members), first)
           ELSE (IF first THEN << >> ELSE << "," >>)
                \o JsonString(m[1]) \o << ":" >> \o JsonString(m[2])
                \o JsonMembers(Tail(members), FALSE)

JsonStringify(members) == << "{" >> \o JsonMembers(members, TRUE) \o << "}" >>

RECURSIVE SkipSpace(_, _)
SkipSpace(t, i) == IF i <= Len(t) /\ t[i] = " " THEN SkipSpace(t, i + 1) ELSE i

RECURSIVE ReadChars(_, _, _)
ReadChars(t, i, acc) ==
   IF i > Len(t) THEN [ok |-> FALSE, val |-> acc, next |-> i]
   ELSE IF t[i] = "\"" THEN [ok |-> TRUE, val |-> acc, next |-> i + 1]
   ELSE IF t[i] = "\\"
        THEN IF i + 1 <= Len(t) /\ t[i + 1] \in { "\"", "\\", "/" }
             THEN ReadChars(t, i + 2, Append(acc, t[i + 1]))
             ELSE [ok |-> FALSE, val |-> acc, next |-> i]
   ELSE ReadChars(t, i + 1, Append(acc, t[i]))

ReadString(t, i) ==
   IF i <= Len(t) /\ t[i] = "\"" THEN ReadChars(t, i + 1, << >>)
   ELSE [ok |-> FALSE, val |-> << >>, next |-> i]

RECURSIVE ReadMembers(_, _, _)
ReadMembers(t, i, acc) ==
   LET k == ReadString(t, SkipSpace(t, i))
       c == SkipSpace(t, k.next)
       v == ReadString(t, SkipSpace(t, c + 1))
       e == SkipSpace(t, v.next)
   IN IF ~k.ok \/ c > Len(t) \/ t[c] # ":" \/ ~v.ok \/ e > Len(t)
      THEN [ok |-> FALSE, members |-> acc]
      ELSE IF t[e] = "," THEN ReadMembers(t, e + 1, Append(acc, << k.val, v.val >>))
      ELSE IF t[e] = "}" /\ SkipSpace(t, e + 1) > Len(t)
           THEN [ok |-> TRUE, members |-> Append(acc, << k.val, v.val >>)]
      ELSE [ok |-> FALSE, members |-> acc]

JsonParse(t) ==
   LET o == SkipSpace(t, 1)
       m == SkipSpace(t, o + 1)
   IN IF o > Len(t) \/ t[o] # "{" THEN [ok |-> FALSE, members |-> << >>]
      ELSE IF m <= Len(t) /\ t[m] = "}" /\ SkipSpace(t, m + 1) > Len(t)
           THEN [ok |-> TRUE, members |-> << >>]
      ELSE ReadMembers(t, o + 1, << >>)

\* obj.key on a parsed object: the last member of that name, else undefined
RECURSIVE JsonGet(_, _)
JsonGet(members, key) ==
   IF Len(members) = 0 THEN UndefinedText
   ELSE LET m == members[Len(members)]
        IN IF m[1] = key THEN m[2]
           ELSE JsonGet(SubSeq(members, 1, Len(members) - 1), key)

KeyApiPublicKey == << "a", "p", "i", "P", "u", "b", "l", "i", "c", "K", "e", "y" >>

KeyApiPrivateKey == << "a", "p", "i", "P", "r", "i", "v", "a", "t", "e", "K", "e", "y" >>

-----------------------------------------------------------------------------
(* The remote master-key service (AWS KMS encrypt / decrypt).  A blob is   *)
(* bound to the key and to the encryption context it was made under and   *)
(* authenticated: decrypt under another key or context, or of a blob that  *)
(* was altered or cut short, is an integrity failure                       *)
(* (InvalidCiphertextException).                                           *)

KmsKeyId == "27958fe3-0f3f-44d4-b21d-9d820d5ad96c"

ServiceName == "lumenbro-session-keys"

EnvNames == << "development", "production", "test", "staging" >>

EnvTag(env) == CHOOSE i \in DOMAIN EnvNames : EnvNames[i] = env

KmsContext(service, env) == [Service |-> service, Environment |-> env]

ContextTag(ctx) == (IF ctx.Service = ServiceName THEN 100 ELSE 200) + EnvTag(ctx.Environment)

KeyTag(keyId) == IF keyId = KmsKeyId THEN 1 ELSE 2

\* the authentication tag of a blob, as long as the plaintext and bound to the
\* key, the context and the position of every byte
KmsTag(keyTag, ctxTag, plaintext) ==
   [ i \in 1..Len(plaintext) |-> (plaintext[i] + keyTag + ctxTag + i) % 256 ]

\* the blob: key, context and length of the plaintext, the ciphertext and its tag
KmsEncrypt(keyId, plaintext, ctx) ==
   << KeyTag(keyId), ContextTag(ctx), Len(plaintext) >>
   \o [ i \in 1..Len(plaintext) |-> (plaintext[i] + 1) % 256 ]
   \o KmsTag(KeyTag(keyId), ContextTag(ctx), plaintext)

\* a blob opens only if it is, as a whole, what KmsEncrypt makes of its
\* plaintext under this key and this context
KmsDecrypt(keyId, blob, ctx) ==
   IF Len(blob) < 3 \/ Len(blob) # 3 + 2 * blob[3]
   THEN [ok |-> FALSE, Plaintext |-> << >>]
   ELSE LET plaintext == [ i \in 1..blob[3] |-> (blob[i + 3] + 255) % 256 ]
        IN IF blob = KmsEncrypt(keyId, plaintext, ctx)
           THEN [ok |-> TRUE, Plaintext |-> plaintext]
           ELSE [ok |-> FALSE, Plaintext |-> << >>]

-----------------------------------------------------------------------------
(* services/kmsService.js *)

\* process.env.NODE_ENV || 'development'
NodeEnvironment(env) == IF env \in { Undefined, "" } THEN "development" ELSE env

NodeContext(env) == KmsContext(ServiceName, NodeEnvironment(env))

\* the encrypt side writing the pair under other field names
encryptSessionKeys_OtherNames(apiPublicKey, apiPrivateKey, env) ==
   LET sessionData == << << << "p", "u", "b", "l", "i", "c", "K", "e", "y" >>, apiPublicKey >>,
                         << << "p", "r", "i", "v", "a", "t", "e", "K", "e", "y" >>,
                            apiPrivateKey >> >>
       plaintext == Utf8Encode(JsonStringify(sessionData))
       blob == KmsEncrypt(KmsKeyId, plaintext, NodeContext(env))
   IN [encryptedData |-> Base64Encode(blob), keyId |-> KmsKeyId]

encryptSessionKeys(apiPublicKey, apiPrivateKey, env) ==
   LET sessionData == << << KeyApiPublicKey, apiPublicKey >>,
                         << KeyApiPrivateKey, apiPrivateKey >> >>
       plaintext == Utf8Encode(JsonStringify(sessionData))
       blob == KmsEncrypt(KmsKeyId, plaintext, NodeContext(env))
   IN [encryptedData |-> Base64Encode(blob), keyId |-> KmsKeyId]

KeyPair(pub, priv) == [apiPublicKey |-> pub, apiPrivateKey |-> priv]

DecryptFailure(msg) == [ok |-> FALSE, error |-> msg, keys |-> KeyPair(UndefinedText, UndefinedText)]

\* the body shared by decryptSessionKeys (Node) and decrypt_session_keys (Python)
DecryptUnder(encryptedData, ctx) ==
   IF ~IsBase64(encryptedData) THEN DecryptFailure("InvalidCiphertextException")
   ELSE
      LET result == KmsDecrypt(KmsKeyId, Base64Decode(encryptedData), ctx)
      IN IF ~result.ok THEN DecryptFailure("InvalidCiphertextException")
         ELSE IF ~IsPrintable(result.Plaintext) THEN DecryptFailure("SyntaxError")
         ELSE LET parsed == JsonParse(Utf8Decode(result.Plaintext))
              IN IF ~parsed.ok THEN DecryptFailure("SyntaxError")
                 ELSE [ok |-> TRUE, error |-> "",
                       keys |-> KeyPair(JsonGet(parsed.members, KeyApiPublicKey),
                                        JsonGet(parsed.members, KeyApiPrivateKey))]

decryptSessionKeys(encryptedData, env) == DecryptUnder(encryptedData, NodeContext(env))

-----------------------------------------------------------------------------
(* services/kms_service.py *)

PythonContext == KmsContext(ServiceName, "production")

decrypt_session_keys(encrypted_session_key) ==
   LET r == DecryptUnder(encrypted_session_key, PythonContext)
   IN IF r.ok /\ r.keys.apiPublicKey # UndefinedText /\ r.keys.apiPrivateKey # UndefinedText
      THEN r
      ELSE DecryptFailure("Session key decryption failed")

-----------------------------------------------------------------------------
(* The shared store: table users (one row per telegram_id) and table       *)
(* turnkey_wallets.  Columns no modelled code reads (public_key,           *)
(* referral_code, turnkey_user_id, user_email) are left out.               *)

Users == { "U1", "U2" }

GhostUser == "U9"       \* a telegram_id with a wallet row but no users row

OrgO1 == "O1"

OrgO2 == "O2"

OrgO3 == "O3"

OrgO4 == "O4"

UnknownOrg == "O9"      \* an organization id no wallet row carries

UserRecord(kms, kid, sid, tpub, tpriv, expiry, created, old) ==
   [ kms_encrypted_session_key |-> kms,
     kms_key_id |-> kid,
     turnkey_session_id |-> sid,
     temp_api_public_key |-> tpub,
     temp_api_private_key |-> tpriv,
     session_expiry |-> expiry,
     session_created_at |-> created,
     source_old_db |-> old,
     recovery_mode |-> FALSE,
     recovery_org_id |-> NULL,
     recovery_session_expires |-> NullTime ]

Wallet(tid, org, active, apiPub) ==
   [ telegram_id |-> tid,
     turnkey_sub_org_id |-> org,
     is_active |-> active,
     turnkey_key_id |-> "key-" \o org,
     turnkey_api_public_key |-> apiPub ]

NoWalletColumns ==
   [ turnkey_sub_org_id |-> NULL, turnkey_key_id |-> NULL,
     turnkey_api_public_key |-> NullText, is_active |-> NULL ]

\* Python truthiness of a text column: None and '' are both false
Truthy(text) == text # NullText /\ text # << >>

-----------------------------------------------------------------------------
(* api.py: get_user_authenticator_type *)

\* the join that keeps every Organization Record of the user, active or not
ResolverRows_EveryWallet(us, ws, tid) ==
   IF tid \notin DOMAIN us THEN { }
   ELSE LET mine == { w \in ws : w.telegram_id = tid }
        IN IF mine = { }
           THEN { [user |-> us[tid], tw |-> NoWalletColumns] }
           ELSE { [user |-> us[tid],
                   tw |-> [ turnkey_sub_org_id |-> w.turnkey_sub_org_id,
                            turnkey_key_id |-> w.turnkey_key_id,
                            turnkey_api_public_key |-> w.turnkey_api_public_key,
                            is_active |-> w.is_active ]] : w \in mine }
\* the SELECT ... FROM users u LEFT JOIN turnkey_wallets tw
\*   ON u.telegram_id = tw.telegram_id AND tw.is_active = TRUE
ResolverRows(us, ws, tid) ==
   IF tid \notin DOMAIN us THEN { }
   ELSE LET active == { w \in ws : w.telegram_id = tid /\ w.is_active = TRUE }
        IN IF active = { }
           THEN { [user |-> us[tid], tw |-> NoWalletColumns] }
           ELSE { [user |-> us[tid],
                   tw |-> [ turnkey_sub_org_id |-> w.turnkey_sub_org_id,
                            turnkey_key_id |-> w.turnkey_key_id,
                            turnkey_api_public_key |-> w.turnkey_api_public_key,
                            is_active |-> w.is_active ]] : w \in active }

\* the resolver's result with the session flagged active in every branch
UserInfo_AlwaysActive(atype, method, active, row) ==
   [ authenticator_type |-> atype,
     signing_method |-> method,
     has_active_session |-> TRUE,
     turnkey_sub_org_id |-> row.tw.turnkey_sub_org_id,
     turnkey_key_id |-> row.tw.turnkey_key_id ]

UserInfo(atype, method, active, row) ==
   [ authenticator_type |-> atype,
     signing_method |-> method,
     has_active_session |-> active,
     turnkey_sub_org_id |-> row.tw.turnkey_sub_org_id,
     turnkey_key_id |-> row.tw.turnkey_key_id ]

\* the chain with the legacy branch tested ahead of the other two
NominalShape_LegacyFirst(row) ==
   IF Truthy(row.user.temp_api_public_key) /\ Truthy(row.user.temp_api_private_key)
   THEN UserInfo("legacy", "python_bot_legacy", TRUE, row)
   ELSE IF Truthy(row.user.kms_encrypted_session_key) /\ row.user.kms_key_id # NULL
   THEN UserInfo("session_keys", "python_bot_kms", TRUE, row)
   ELSE IF Truthy(row.tw.turnkey_api_public_key)
   THEN UserInfo("telegram_cloud", "python_bot_tg_cloud", TRUE, row)
   ELSE IF row.user.source_old_db # NULL
   THEN UserInfo("legacy", "python_bot_legacy", FALSE, row)
   ELSE UserInfo("unknown", "unknown", FALSE, row)

\* the if / elif chain that determines the authenticator type
NominalShape(row) ==
   IF Truthy(row.user.kms_encrypted_session_key) /\ row.user.kms_key_id # NULL
   THEN UserInfo("session_keys", "python_bot_kms", TRUE, row)
   ELSE IF Truthy(row.tw.turnkey_api_public_key)
   THEN UserInfo("telegram_cloud", "python_bot_tg_cloud", TRUE, row)
   ELSE IF Truthy(row.user.temp_api_public_key) /\ Truthy(row.user.temp_api_private_key)
   THEN UserInfo("legacy", "python_bot_legacy", TRUE, row)
   ELSE IF row.user.source_old_db # NULL
   THEN UserInfo("legacy", "python_bot_legacy", FALSE, row)
   ELSE UserInfo("unknown", "unknown", FALSE, row)

\* the expiry check that clears the flag but keeps the nominal method
ExpiryCheck_KeepsMethod(info, row, t) ==
   IF /\ info.has_active_session
      /\ row.user.session_expiry # NullTime
      /\ row.user.session_expiry < t
   THEN [info EXCEPT !.has_active_session = FALSE]
   ELSE info

\* the expiry check that renames the method but leaves the session flagged active
ExpiryCheck_KeepsFlag(info, row, t) ==
   IF /\ info.has_active_session
      /\ row.user.session_expiry # NullTime
      /\ row.user.session_expiry < t
   THEN [info EXCEPT !.signing_method = "session_expired"]
   ELSE info
\* the session expiry check that follows the chain
ExpiryCheck(info, row, t) ==
   IF /\ info.has_active_session
      /\ row.user.session_expiry # NullTime
      /\ row.user.session_expiry < t
   THEN [info EXCEPT !.has_active_session = FALSE, !.signing_method = "session_expired"]
   ELSE info

get_user_authenticator_type(row, t) == ExpiryCheck(NominalShape(row), row, t)

-----------------------------------------------------------------------------
(* api.py: the authorization gate of /api/sign (jwt.decode, HS256) *)

JwtSecret == "jwt-secret"

Token(tid, exp, secret) == [telegram_id |-> tid, exp |-> exp, signed_with |-> secret]

NoHeader == [scheme |-> "none"]

Header(scheme, token) == [scheme |-> scheme, token |-> token]

\* jwt.decode: a signature mismatch and an expired token both raise a
\* subclass of InvalidTokenError
JwtDecode(token, t) ==
   IF token.signed_with # JwtSecret THEN [ok |-> FALSE, error |-> "InvalidSignatureError"]
   ELSE IF token.exp <= t THEN [ok |-> FALSE, error |-> "ExpiredSignatureError"]
   ELSE [ok |-> TRUE, error |-> ""]

AuthorizationGate(header, t) ==
   IF header.scheme # "Bearer"
   THEN [status |-> 401, error |-> "Missing or invalid Authorization header", telegram_id |-> NULL]
   ELSE IF ~JwtDecode(header.token, t).ok
   THEN [status |-> 401, error |-> "Invalid JWT token", telegram_id |-> NULL]
   ELSE [status |-> 200, error |-> "", telegram_id |-> header.token.telegram_id]

-----------------------------------------------------------------------------
(* api.py: the signing branches *)

Raise(msg) == [ok |-> FALSE, error |-> msg]

\* TurnkeySigner(...).sign_transaction(transaction): the custody authority
\* signs with the credentials it is handed, or fails
TurnkeySign(transaction, credentials, authority) ==
   IF authority = "ok"
   THEN [ok |-> TRUE, error |-> "",
         signed |-> [transaction |-> transaction, credentials |-> credentials]]
   ELSE Raise("UpstreamAuthorityFailure")

\* a fetched row holds the selected columns only
Select(record, columns) == [ c \in columns |-> record[c] ]

decrypt_with_kms(encrypted_session_key, kms_key_id) ==
   decrypt_session_keys(encrypted_session_key)

\* what fetchrow returns when no row matches
NoRow == [found |-> FALSE]

\* SELECT kms_encrypted_session_key, kms_key_id FROM users WHERE telegram_id = $1
FetchKmsSession(us, tid) ==
   IF tid \notin DOMAIN us THEN { NoRow }
   ELSE { Select(us[tid], { "kms_encrypted_session_key", "kms_key_id" }) }

\* SELECT turnkey_sub_org_id, turnkey_key_id, turnkey_api_public_key
\*   FROM turnkey_wallets WHERE telegram_id = $1 AND is_active = TRUE
FetchCloudKeys(ws, tid) ==
   LET rows == { w \in ws : w.telegram_id = tid /\ w.is_active = TRUE }
   IN IF rows = { } THEN { NoRow }
      ELSE { Select(w, { "turnkey_sub_org_id", "turnkey_key_id", "turnkey_api_public_key" }) :
                w \in rows }

\* SELECT temp_api_public_key, temp_api_private_key FROM users WHERE telegram_id = $1
FetchLegacyKeys(us, tid) ==
   IF tid \notin DOMAIN us THEN { NoRow }
   ELSE { Select(us[tid], { "temp_api_public_key", "temp_api_private_key" }) }

\* not user or not user['kms_encrypted_session_key']
NoKmsSession(user) == user = NoRow \/ ~Truthy(user.kms_encrypted_session_key)

\* not user
NoCloudKeys(user) == user = NoRow

\* the legacy test that lets every fetched row through
NoLegacySession_Never(user) == FALSE

\* not user or not user['temp_api_private_key']
NoLegacySession(user) == user = NoRow \/ ~Truthy(user.temp_api_private_key)

\* the branches from their fetched row on
sign_with_kms_session(transaction, user, authority) ==
   IF NoKmsSession(user) THEN Raise("No KMS session found")
   ELSE
      LET session_key == decrypt_with_kms(user.kms_encrypted_session_key, user.kms_key_id)
      IN IF ~session_key.ok THEN Raise(session_key.error)
         ELSE IF "turnkey_sub_org_id" \notin DOMAIN user
         THEN Raise("'turnkey_sub_org_id'")
         ELSE IF "turnkey_key_id" \notin DOMAIN user
         THEN Raise("'turnkey_key_id'")
         ELSE TurnkeySign(transaction,
                          [sub_org_id |-> user.turnkey_sub_org_id,
                           key_id |-> user.turnkey_key_id,
                           session_key |-> session_key.keys],
                          authority)

sign_with_tg_cloud_keys(transaction, user, authority) ==
   IF NoCloudKeys(user) THEN Raise("No Telegram Cloud keys found")
   ELSE TurnkeySign(transaction,
                    [sub_org_id |-> user.turnkey_sub_org_id, key_id |-> user.turnkey_key_id],
                    authority)

sign_with_legacy_keys(transaction, user, authority) ==
   IF NoLegacySession(user) THEN Raise("No legacy session found")
   ELSE TurnkeySign(transaction,
                    [api_public_key |-> user.temp_api_public_key,
                     api_private_key |-> user.temp_api_private_key],
                    authority)

sign_transaction_with_method(transaction, signing_method, user, authority) ==
   IF signing_method = "python_bot_kms"
   THEN sign_with_kms_session(transaction, user, authority)
   ELSE IF signing_method = "python_bot_tg_cloud"
   THEN sign_with_tg_cloud_keys(transaction, user, authority)
   ELSE IF signing_method = "python_bot_legacy"
   THEN sign_with_legacy_keys(transaction, user, authority)
   ELSE Raise("Unsupported signing method")

\* the rows the fetch of the method's branch can return (more than one only
\* if several wallet rows are active)
FetchKeys(signing_method, tid, us, ws) ==
   IF signing_method = "python_bot_kms" THEN FetchKmsSession(us, tid)
   ELSE IF signing_method = "python_bot_tg_cloud" THEN FetchCloudKeys(ws, tid)
   ELSE IF signing_method = "python_bot_legacy" THEN FetchLegacyKeys(us, tid)
   ELSE { NoRow }

\* the branch raises on the fetched row, before it awaits anything else
RaisedAtFetch(signing_method, user) ==
   IF signing_method = "python_bot_kms" THEN NoKmsSession(user)
   ELSE IF signing_method = "python_bot_tg_cloud" THEN NoCloudKeys(user)
   ELSE IF signing_method = "python_bot_legacy" THEN NoLegacySession(user)
   ELSE TRUE

-----------------------------------------------------------------------------
(* api.py: api_sign.  Every database statement, every reading of the       *)
(* clock and every reply is a step of its own, so that the other handlers, *)
(* the scripts and the clock can move between any two of them: the gate    *)
(* and the check of the body, the resolver's SELECT, the resolver's clock  *)
(* reading, the refusal, the key fetch of the method's branch, the answer  *)
(* of the remote call the branch waits for.                                *)

Transactions == { "TX1" }

\* the fee payment operation carried by a transaction
FeePayment == [ x \in Transactions |-> 1 ]

XdrInputs == { Undefined, "", "garbage" } \cup Transactions

Idle == [pc |-> "idle"]

SignError(status, error, tid, seen) ==
   [op |-> "sign", status |-> status, body |-> [error |-> error],
    telegram_id |-> tid, seen |-> seen]

NoActiveSession(info, tid, seen) ==
   [op |-> "sign", status |-> 401,
    body |-> [error |-> "No active session",
              signing_method |-> info.signing_method,
              requires_login |-> TRUE],
    telegram_id |-> tid, seen |-> seen]

\* a step that sends no reply
NoReply == [op |-> "none"]

NothingSeen == [at |-> NullTime]

\* the request arrives: the gate and the body check run before the first await
SignStart(header, xdr, include_fee) ==
   /\ signReq = Idle
   /\ LET gate == AuthorizationGate(header, now)
          tid == gate.telegram_id
      IN IF gate.status # 200
         THEN /\ resp' = SignError(401, gate.error, tid, NothingSeen)
              /\ signReq' = signReq
         ELSE IF xdr = Undefined \/ xdr = ""    \* not xdr
         THEN /\ resp' = SignError(400, "Missing XDR", tid, NothingSeen)
              /\ signReq' = signReq
         ELSE /\ signReq' = [pc |-> "resolve", telegram_id |-> tid,
                             xdr |-> xdr, include_fee |-> include_fee]
              /\ resp' = NoReply
   /\ log' = << >>
   /\ turnkeySent' = { }
   /\ UNCHANGED << users, wallets, now, nodeEnv, createReq, issued, kmsOp, botReq >>

\* the resolver's SELECT is carried out: the handler holds the row it
\* returned, or none
SignSelect ==
   /\ signReq # Idle
   /\ signReq.pc = "resolve"
   /\ \E row \in (IF ResolverRows(users, wallets, signReq.telegram_id) = { }
                  THEN { NoRow }
                  ELSE ResolverRows(users, wallets, signReq.telegram_id)) :
         signReq' = [pc |-> "clock", telegram_id |-> signReq.telegram_id,
                     xdr |-> signReq.xdr, include_fee |-> signReq.include_fee,
                     row |-> row]
   /\ resp' = NoReply
   /\ log' = << >>
   /\ turnkeySent' = { }
   /\ UNCHANGED << users, wallets, now, nodeEnv, createReq, issued, kmsOp, botReq >>

\* the expiry check that clears the session it finds expired
SignClock_ClearsExpired ==
   /\ signReq # Idle
   /\ signReq.pc = "clock"
   /\ IF signReq.row = NoRow
      THEN /\ resp' = SignError(500, "User not found", signReq.telegram_id, NothingSeen)
           /\ log' = << << << "Signing error: ", "User not found" >> >> >>
           /\ signReq' = Idle
           /\ users' = users
      ELSE LET user_info == get_user_authenticator_type(signReq.row, now)
               refused == ~user_info.has_active_session
                          \/ signReq.xdr \notin Transactions
           IN /\ signReq' = [pc |-> IF refused THEN "refuse" ELSE "dispatch",
                             telegram_id |-> signReq.telegram_id,
                             transaction |-> signReq.xdr,
                             include_fee |-> signReq.include_fee,
                             user_info |-> user_info,
                             seen |-> [at |-> now, row |-> signReq.row,
                                       user_info |-> user_info]]
              /\ resp' = NoReply
              /\ log' = << >>
              /\ users' = IF user_info.signing_method = "session_expired"
                          THEN [users EXCEPT ![signReq.telegram_id] =
                                  [@ EXCEPT !.kms_encrypted_session_key = NullText,
                                            !.kms_key_id = NULL,
                                            !.session_expiry = NullTime]]
                          ELSE users
   /\ turnkeySent' = { }
   /\ UNCHANGED << wallets, now, nodeEnv, createReq, issued, kmsOp, botReq >>
\* the resolver goes on from its row: no row raises 'User not found', which
\* the handler answers; otherwise the chain runs and the clock is read for the
\* expiry check
SignClock ==
   /\ signReq # Idle
   /\ signReq.pc = "clock"
   /\ IF signReq.row = NoRow
      THEN /\ resp' = SignError(500, "User not found", signReq.telegram_id, NothingSeen)
           /\ log' = << << << "Signing error: ", "User not found" >> >> >>
           /\ signReq' = Idle
      ELSE LET user_info == get_user_authenticator_type(signReq.row, now)
               refused == ~user_info.has_active_session
                          \/ signReq.xdr \notin Transactions
           IN /\ signReq' = [pc |-> IF refused THEN "refuse" ELSE "dispatch",
                             telegram_id |-> signReq.telegram_id,
                             transaction |-> signReq.xdr,
                             include_fee |-> signReq.include_fee,
                             user_info |-> user_info,
                             seen |-> [at |-> now, row |-> signReq.row,
                                       user_info |-> user_info]]
              /\ resp' = NoReply
              /\ log' = << >>
   /\ turnkeySent' = { }
   /\ UNCHANGED << users, wallets, now, nodeEnv, createReq, issued, kmsOp, botReq >>

\* the refusal is sent: no active session, or a transaction that does not parse
SignRefuse ==
   /\ signReq # Idle
   /\ signReq.pc = "refuse"
   /\ resp' = IF ~signReq.user_info.has_active_session
              THEN NoActiveSession(signReq.user_info, signReq.telegram_id, signReq.seen)
              ELSE SignError(400, "Invalid XDR", signReq.telegram_id, signReq.seen)
   /\ signReq' = Idle
   /\ log' = << >>
   /\ turnkeySent' = { }
   /\ UNCHANGED << users, wallets, now, nodeEnv, createReq, issued, kmsOp, botReq >>

\* the key fetch of the branch: the SELECT is carried out and the handler
\* holds the row it returned; a row the branch raises on takes the handler
\* to its except clause, any other to the remote call
SignFetch ==
   /\ signReq # Idle
   /\ signReq.pc = "dispatch"
   /\ \E user \in FetchKeys(signReq.user_info.signing_method, signReq.telegram_id,
                             users, wallets) :
         signReq' = [pc |-> IF RaisedAtFetch(signReq.user_info.signing_method, user)
                            THEN "raise" ELSE "sign",
                     telegram_id |-> signReq.telegram_id,
                     transaction |-> signReq.transaction,
                     include_fee |-> signReq.include_fee,
                     user_info |-> signReq.user_info, seen |-> signReq.seen,
                     user |-> user]
   /\ resp' = NoReply
   /\ log' = << >>
   /\ turnkeySent' = { }
   /\ UNCHANGED << users, wallets, now, nodeEnv, createReq, issued, kmsOp, botReq >>

\* the branch raised on the row it fetched: the connection is released and
\* the except clause of api_sign logs the error and answers 500
SignRaise ==
   /\ signReq # Idle
   /\ signReq.pc = "raise"
   /\ \E r \in { sign_transaction_with_method(signReq.transaction,
                                                signReq.user_info.signing_method,
                                                signReq.user, "ok") } :
         /\ resp' = SignError(500, r.error, signReq.telegram_id, signReq.seen)
         /\ log' = << << << "Signing error: ", r.error >> >> >>
   /\ signReq' = Idle
   /\ turnkeySent' = { }
   /\ UNCHANGED << users, wallets, now, nodeEnv, createReq, issued, kmsOp, botReq >>

\* the reply built from the outcome of the branch
SignReply(r) ==
   IF r.ok
   THEN [op |-> "sign", status |-> 200,
         body |-> [success |-> TRUE,
                   signed_xdr |-> r.signed,
                   hash |-> << "hash", r.signed.transaction >>,
                   fee |-> IF signReq.include_fee THEN 0
                           ELSE FeePayment[signReq.transaction],
                   signing_method |-> signReq.user_info.signing_method],
         telegram_id |-> signReq.telegram_id, seen |-> signReq.seen]
   ELSE SignError(500, r.error, signReq.telegram_id, signReq.seen)

\* the last step dropping the stored session when signing fails
SignFinish_ClearsOnFailure(authority) ==
   /\ signReq # Idle
   /\ signReq.pc = "sign"
   /\ \E r \in { sign_transaction_with_method(signReq.transaction,
                                                signReq.user_info.signing_method,
                                                signReq.user, authority) } :
         /\ resp' = SignReply(r)
         /\ log' = IF r.ok THEN << >> ELSE << << << "Signing error: ", r.error >> >> >>
         /\ turnkeySent' = IF r.ok \/ r.error = "UpstreamAuthorityFailure"
                           THEN { [endpoint |-> "sign_raw_payload",
                                   body |-> signReq.transaction] }
                           ELSE { }
         /\ users' = IF r.ok THEN users
                     ELSE [users EXCEPT ![signReq.telegram_id] =
                             [@ EXCEPT !.kms_encrypted_session_key = NullText,
                                       !.kms_key_id = NULL]]
   /\ signReq' = Idle
   /\ UNCHANGED << wallets, now, nodeEnv, createReq, issued, kmsOp, botReq >>

\* the remote call of the branch returns: the reply is built from the row
\* fetched earlier
SignFinish(authority) ==
   /\ signReq # Idle
   /\ signReq.pc = "sign"
   /\ \E r \in { sign_transaction_with_method(signReq.transaction,
                                                signReq.user_info.signing_method,
                                                signReq.user, authority) } :
         /\ resp' = SignReply(r)
         /\ log' = IF r.ok THEN << >> ELSE << << << "Signing error: ", r.error >> >> >>
         /\ turnkeySent' = IF r.ok \/ r.error = "UpstreamAuthorityFailure"
                           THEN { [endpoint |-> "sign_raw_payload",
                                   body |-> signReq.transaction] }
                           ELSE { }
   /\ signReq' = Idle
   /\ UNCHANGED << users, wallets, now, nodeEnv, createReq, issued, kmsOp, botReq >>

-----------------------------------------------------------------------------
(* routes/login.js: POST /mini-app/create-session *)

BotToken == "bot-token"

\* crypto.createHmac('sha256', key).update(data).digest('hex')
Hmac(key, data) == << "hmac", key, data >>

InitData(data, hash) == [data |-> data, hash |-> hash]

\* the validation that accepts any initData
validateInitData_Any(initData) == TRUE
validateInitData(initData) ==
   LET secretKey == Hmac("WebAppData", BotToken)
       computedHash == Hmac(secretKey, initData.data)
   IN computedHash = initData.hash

HexDigits == { "0", "1", "2", "3", "4", "5", "6", "7", "8", "9",
               "a", "b", "c", "d", "e", "f", "A", "B", "C", "D", "E", "F" }

EphemeralKeyHexLen == 64

\* the validation that lets every key through
ValidEphemeralKey_Any(k) == TRUE
\* !ephemeralPrivateKey || typeof ... !== 'string' || !/^[0-9a-fA-F]{64}$/.test(...)
ValidEphemeralKey(k) ==
   /\ k # UndefinedText
   /\ Len(k) = EphemeralKeyHexLen
   /\ \A i \in 1..Len(k) : k[i] \in HexDigits

EphA == Rep("a", EphemeralKeyHexLen)

EphShort == Rep("a", EphemeralKeyHexLen - 1)

EphNonHex == Rep("a", EphemeralKeyHexLen - 1) \o << "g" >>

EphemeralInputs == { EphA, EphShort, EphNonHex, UndefinedText }

\* the public half of an ephemeral key, to which the authority encrypts
EphemeralPublic(k) == << "pub" >> \o k

DigitChar(n) == AsciiPrintable[17 + n]

\* the API private key (hex) of the n-th session the authority issues
SessionKey(n) == << "0", DigitChar(n) >>

SessionId(n) == "S" \o ToString(n)

\* Buffer.from(decrypted, 'hex'): the number of characters decoded, the whole
\* pairs of hex digits up to the first character that is none
HexLength(text) ==
   LET whole == { k \in 0..(Len(text) \div 2) :
                     \A i \in 1..(2 * k) : text[i] \in HexDigits }
   IN 2 * (CHOOSE k \in whole : \A j \in whole : j <= k)

\* the scalars ecdh.setPrivateKey takes: a zero (or empty) one is not a
\* private key of the curve
ValidScalar(priv) == \E i \in 1..HexLength(priv) : priv[i] # "0"

\* the compressed public point of a valid scalar
PublicPoint(priv) == << "0", "2" >> \o [ i \in 1..Len(priv) |-> priv[Len(priv) + 1 - i] ]

\* ecdh.setPrivateKey(...); ecdh.getPublicKey('hex', 'compressed')
DerivePublicKey(priv) ==
   IF ~ValidScalar(priv)
   THEN [ok |-> FALSE, error |-> "Private key is not valid for specified curve.",
         key |-> UndefinedText]
   ELSE [ok |-> TRUE, error |-> "", key |-> PublicPoint(priv)]

\* the credential bundle the authority returns: the API private key sealed
\* to the target public key
SealTo(target, key) == << "sealed" >> \o target \o key

CredentialBundle(target, key) == [target |-> target, ciphertext |-> SealTo(target, key)]

\* decryptCredentialBundle(credentialBundle, ephemeralPrivateKey)
decryptCredentialBundle(bundle, eph) ==
   IF bundle.target = EphemeralPublic(eph)
   THEN [ok |-> TRUE, error |-> "",
         decrypted |-> SubSeq(bundle.ciphertext, Len(bundle.target) + 2,
                              Len(bundle.ciphertext))]
   ELSE [ok |-> FALSE, error |-> "bundle decryption failed", decrypted |-> UndefinedText]

CreateSlots == { "r1", "r2" }

Body(org, parameters) == [organizationId |-> org, parameters |-> parameters]

\* one body per owner case of the organization id, and the time-to-live
\* variants on the first
BodyInputs ==
   { Body(OrgO1, [expirationSeconds |-> 1]),
     Body(OrgO1, [expirationSeconds |-> 2]),
     Body(OrgO1, [type |-> "none"]),
     Body(OrgO2, [expirationSeconds |-> 1]),
     Body(OrgO3, [expirationSeconds |-> 1]),
     Body(OrgO4, [expirationSeconds |-> 1]),
     Body(UnknownOrg, [expirationSeconds |-> 1]) }

ValidInitData == InitData("user=1", Hmac(Hmac("WebAppData", BotToken), "user=1"))

ForgedInitData == InitData("user=1", Hmac(Hmac("WebAppData", "forged"), "user=1"))

Request(body, stamp, eph, initData) ==
   [body |-> body, stamp |-> stamp, ephemeralPrivateKey |-> eph, initData |-> initData]

CreateError(status, error, req) ==
   [op |-> "create-session", status |-> status, body |-> [error |-> error],
    seen |-> [request |-> req]]

\* the line written before the try block
HeadLog(req) ==
   << << "Received request payload:", req >> >>

\* typeof ephemeralPrivateKey
TypeOf(value) == IF value = UndefinedText THEN "undefined" ELSE "string"

\* the lines written at the head of the try block
TryLog(req) ==
   << << "Validated initData. Sending to Turnkey..." >>,
      << "Body sent to Turnkey:", req.body >>,
      << "Stamp sent to Turnkey:", req.stamp >>,
      << "EphemeralPrivateKey received:", req.ephemeralPrivateKey,
         "type:", TypeOf(req.ephemeralPrivateKey) >> >>

\* a bundle whose content is no private key of the curve
ZeroKey == << "0", "0" >>

\* what the custody authority answers: turnkey is its verdict, target the key
\* the returned bundle is sealed to, n the number of the session it issues
TurnkeyResponse(turnkey, target, n) ==
   IF turnkey = "ok"
   THEN [ok |-> TRUE,
         text |-> [credentialBundle |-> CredentialBundle(target, SessionKey(n)),
                   apiKeyId |-> SessionId(n)]]
   ELSE IF turnkey = "zero-key"
   THEN [ok |-> TRUE,
         text |-> [credentialBundle |-> CredentialBundle(target, ZeroKey),
                   apiKeyId |-> SessionId(n)]]
   ELSE [ok |-> FALSE, text |-> [error |-> "rejected"]]

\* the line written once the response text is read
ResponseLog(response) ==
   << << "Turnkey raw response:", response.text >> >>

\* the lines of a request that ends in the catch clause
FailureLog(error) ==
   << << << "Login auth failed: ", error >> >> >>

\* the expiry that forgets the requested time-to-live
SessionExpiry_NoTtl(t, expirationSeconds) == t

\* new Date(Date.now() + expirationSeconds * 1000)
SessionExpiry(t, expirationSeconds) == t + expirationSeconds

\* from the response text to the key pair of the session: either the values
\* the handler goes on with or the error thrown
ReadSession(req, response) ==
   IF ~response.ok THEN Raise("Turnkey error")
   ELSE IF ~ValidEphemeralKey(req.ephemeralPrivateKey)
   THEN Raise("Invalid ephemeralPrivateKey format")
   ELSE
      LET opened == decryptCredentialBundle(response.text.credentialBundle,
                                            req.ephemeralPrivateKey)
      IN IF ~opened.ok THEN Raise(opened.error)
         ELSE IF ~DerivePublicKey(opened.decrypted).ok
         THEN Raise(DerivePublicKey(opened.decrypted).error)
         ELSE [ok |-> TRUE, error |-> "",
               sessionId |-> response.text.apiKeyId,
               apiPrivateKey |-> opened.decrypted,
               apiPublicKey |-> DerivePublicKey(opened.decrypted).key]

\* SELECT telegram_id FROM turnkey_wallets WHERE turnkey_sub_org_id = $1
OwnerRows(ws, orgId) ==
   { w.telegram_id : w \in { x \in ws : x.turnkey_sub_org_id = orgId } }

\* the request arrives: the initData test and the head of the try block, up
\* to the request sent to the custody authority
CreateStart(slot, req) ==
   /\ createReq[slot] = Idle
   /\ IF ~validateInitData(req.initData)
      THEN /\ resp' = CreateError(403, "Invalid initData", req)
           /\ log' = HeadLog(req)
           /\ UNCHANGED createReq
      ELSE /\ createReq' = [createReq EXCEPT ![slot] = [pc |-> "fetch", request |-> req]]
           /\ log' = HeadLog(req) \o TryLog(req)
           /\ resp' = NoReply
   /\ turnkeySent' = { }
   /\ UNCHANGED << users, wallets, now, nodeEnv, signReq, issued, kmsOp, botReq >>

\* the custody authority takes the request and answers it (await fetch)
CreateFetch(slot, turnkey, target) ==
   /\ createReq[slot] # Idle
   /\ createReq[slot].pc = "fetch"
   /\ turnkey # "error" => issued < MaxSessions
   /\ turnkeySent' = { [endpoint |-> "create_read_write_session",
                        body |-> createReq[slot].request.body,
                        stamp |-> createReq[slot].request.stamp] }
   /\ issued' = IF turnkey # "error" THEN issued + 1 ELSE issued
   /\ createReq' = [createReq EXCEPT ![slot] =
         [pc |-> "text", request |-> createReq[slot].request,
          response |-> TurnkeyResponse(turnkey, target, issued + 1)]]
   /\ log' = << >>
   /\ resp' = NoReply
   /\ UNCHANGED << users, wallets, now, nodeEnv, signReq, kmsOp, botReq >>

\* the response text is read (await turnkeyRes.text()): the handler runs up
\* to the SELECT of the owner
CreateText(slot) ==
   /\ createReq[slot] # Idle
   /\ createReq[slot].pc = "text"
   /\ LET req == createReq[slot].request
          s == ReadSession(req, createReq[slot].response)
      IN IF ~s.ok
         THEN /\ resp' = CreateError(500, s.error, req)
              /\ log' = ResponseLog(createReq[slot].response) \o FailureLog(s.error)
              /\ createReq' = [createReq EXCEPT ![slot] = Idle]
         ELSE /\ createReq' = [createReq EXCEPT ![slot] =
                    [pc |-> "select", request |-> req, sessionId |-> s.sessionId,
                     apiPublicKey |-> s.apiPublicKey, apiPrivateKey |-> s.apiPrivateKey]]
              /\ log' = ResponseLog(createReq[slot].response)
              /\ resp' = NoReply
   /\ turnkeySent' = { }
   /\ UNCHANGED << users, wallets, now, nodeEnv, signReq, issued, kmsOp, botReq >>

\* the SELECT of the owner is carried out: the handler holds the rows it
\* returned
CreateSelect(slot) ==
   /\ createReq[slot] # Idle
   /\ createReq[slot].pc = "select"
   /\ createReq' = [createReq EXCEPT ![slot] =
         [pc |-> "clock", request |-> createReq[slot].request,
          sessionId |-> createReq[slot].sessionId,
          apiPublicKey |-> createReq[slot].apiPublicKey,
          apiPrivateKey |-> createReq[slot].apiPrivateKey,
          owners |-> OwnerRows(wallets, createReq[slot].request.body.organizationId)]]
   /\ log' = << >>
   /\ resp' = NoReply
   /\ turnkeySent' = { }
   /\ UNCHANGED << users, wallets, now, nodeEnv, signReq, issued, kmsOp, botReq >>

\* the handler goes on from the rows: none throws 'User not found'; otherwise
\* it takes the first, reads the clock, computes the expiry (which throws on a
\* time-to-live that is no number) and calls the envelope key service
CreateClock(slot) ==
   /\ createReq[slot] # Idle
   /\ createReq[slot].pc = "clock"
   /\ LET req == createReq[slot].request
          owners == createReq[slot].owners
          error == IF owners = { } THEN "User not found" ELSE "Invalid time value"
      IN IF owners = { } \/ "expirationSeconds" \notin DOMAIN req.body.parameters
         THEN /\ resp' = CreateError(500, error, req)
              /\ log' = FailureLog(error)
              /\ createReq' = [createReq EXCEPT ![slot] = Idle]
         ELSE \E telegramId \in owners :
                 /\ createReq' = [createReq EXCEPT ![slot] =
                       [pc |-> "kms", request |-> req,
                        sessionId |-> createReq[slot].sessionId,
                        apiPublicKey |-> createReq[slot].apiPublicKey,
                        apiPrivateKey |-> createReq[slot].apiPrivateKey,
                        telegramId |-> telegramId,
                        sessionExpiry |->
                           SessionExpiry(now, req.body.parameters.expirationSeconds)]]
                 /\ log' = << >>
                 /\ resp' = NoReply
   /\ turnkeySent' = { }
   /\ UNCHANGED << users, wallets, now, nodeEnv, signReq, issued, kmsOp, botReq >>

\* the envelope key service answers (await kmsService.encryptSessionKeys):
\* kmsUp is whether the master-key service is reachable
CreateEncrypt(slot, kmsUp) ==
   /\ createReq[slot] # Idle
   /\ createReq[slot].pc = "kms"
   /\ IF ~kmsUp
      THEN /\ resp' = CreateError(500, "KMSInternalException", createReq[slot].request)
           /\ log' = << << "KMS encryption failed:", "KMSInternalException" >> >>
                     \o FailureLog("KMSInternalException")
           /\ createReq' = [createReq EXCEPT ![slot] = Idle]
      ELSE LET sealed == encryptSessionKeys(createReq[slot].apiPublicKey,
                                            createReq[slot].apiPrivateKey, nodeEnv)
           IN /\ createReq' = [createReq EXCEPT ![slot] =
                    [pc |-> "update", request |-> createReq[slot].request,
                     telegramId |-> createReq[slot].telegramId,
                     encryptedData |-> sealed.encryptedData,
                     keyId |-> sealed.keyId,
                     sessionId |-> createReq[slot].sessionId,
                     sessionExpiry |-> createReq[slot].sessionExpiry]]
              /\ log' = << >>
              /\ resp' = NoReply
   /\ turnkeySent' = { }
   /\ UNCHANGED << users, wallets, now, nodeEnv, signReq, issued, kmsOp, botReq >>

\* UPDATE users SET kms_encrypted_session_key = $1, kms_key_id = $2,
\*   turnkey_session_id = $3, session_expiry = $4, session_created_at = NOW()
\*   WHERE telegram_id = $5
\* the write that keeps the later of the stored and the new expiry
StoreSession_KeepsLaterExpiry(us, r, t) ==
   IF r.telegramId \notin DOMAIN us THEN us
   ELSE [us EXCEPT ![r.telegramId] =
           [@ EXCEPT !.kms_encrypted_session_key = r.encryptedData,
                     !.kms_key_id = r.keyId,
                     !.turnkey_session_id = r.sessionId,
                     !.session_expiry = IF @ > r.sessionExpiry THEN @ ELSE r.sessionExpiry,
                     !.session_created_at = t]]

\* the session write that also ends the user's recovery mode
StoreSession_EndsRecovery(us, r, t) ==
   IF r.telegramId \notin DOMAIN us THEN us
   ELSE [us EXCEPT ![r.telegramId] =
           [@ EXCEPT !.kms_encrypted_session_key = r.encryptedData,
                     !.kms_key_id = r.keyId,
                     !.turnkey_session_id = r.sessionId,
                     !.session_expiry = r.sessionExpiry,
                     !.session_created_at = t,
                     !.recovery_mode = FALSE]]
StoreSession(us, r, t) ==
   IF r.telegramId \notin DOMAIN us THEN us
   ELSE [us EXCEPT ![r.telegramId] =
           [@ EXCEPT !.kms_encrypted_session_key = r.encryptedData,
                     !.kms_key_id = r.keyId,
                     !.turnkey_session_id = r.sessionId,
                     !.session_expiry = r.sessionExpiry,
                     !.session_created_at = t]]

\* the UPDATE is carried out
CreateCommit(slot) ==
   /\ createReq[slot] # Idle
   /\ createReq[slot].pc = "update"
   /\ users' = StoreSession(users, createReq[slot], now)
   /\ createReq' = [createReq EXCEPT ![slot] =
         [pc |-> "reply", request |-> createReq[slot].request,
          stored |-> createReq[slot]]]
   /\ resp' = NoReply
   /\ log' = << >>
   /\ turnkeySent' = { }
   /\ UNCHANGED << wallets, now, nodeEnv, signReq, issued, kmsOp, botReq >>

\* res.json({ success: true })
CreateDone(slot) ==
   /\ createReq[slot] # Idle
   /\ createReq[slot].pc = "reply"
   /\ resp' = [op |-> "create-session", status |-> 200, body |-> [success |-> TRUE],
               seen |-> [request |-> createReq[slot].request,
                         stored |-> createReq[slot].stored]]
   /\ createReq' = [createReq EXCEPT ![slot] = Idle]
   /\ log' = << >>
   /\ turnkeySent' = { }
   /\ UNCHANGED << users, wallets, now, nodeEnv, signReq, issued, kmsOp, botReq >>

-----------------------------------------------------------------------------
(* commands/recovery.py and utils/user_access.py *)

RECOVERY_SESSION_HOURS == 1

MalformedOrg == "not-a-uuid"

\* len(org_id) != 36 or org_id.count('-') != 4
ValidOrgFormat(org) == org # MalformedOrg

\* the clearing write that only drops the flag
ClearRecovery_FlagOnly(us, tid) ==
   IF tid \notin DOMAIN us THEN us
   ELSE [us EXCEPT ![tid] = [@ EXCEPT !.recovery_mode = FALSE]]
\* the clearing write that resets the session expiry as well
ClearRecovery_AndExpiry(us, tid) ==
   IF tid \notin DOMAIN us THEN us
   ELSE [us EXCEPT ![tid] = [@ EXCEPT !.recovery_mode = FALSE,
                                      !.recovery_org_id = NULL,
                                      !.recovery_session_expires = NullTime,
                                      !.session_expiry = NullTime]]

ClearRecovery(us, tid) ==
   IF tid \notin DOMAIN us THEN us
   ELSE [us EXCEPT ![tid] = [@ EXCEPT !.recovery_mode = FALSE,
                                      !.recovery_org_id = NULL,
                                      !.recovery_session_expires = NullTime]]

Reply(op, tid, text, seen) == [op |-> op, telegram_id |-> tid, reply |-> text, seen |-> seen]

\* the handlers of the bot run their statements one by one (each
\* execute_query is committed on its own) and any number of them may be in
\* flight: every statement, every reading of the clock and every reply is a
\* step of its own.  A handler in flight holds a slot
BotSlots == { "b1", "b2" }

\* the slot a new command takes (the slots are interchangeable: the first is
\* taken when it is free)
FreeSlot(slots) ==
   IF "b1" \in slots /\ botReq["b1"] = Idle THEN { "b1" }
   ELSE { s \in slots : botReq[s] = Idle }

At(slot, command, pc) ==
   /\ botReq[slot] # Idle
   /\ botReq[slot].command = command
   /\ botReq[slot].pc = pc

\* /recover with no argument prints the usage text
RecoverUsage(tid) ==
   /\ resp' = Reply("recover", tid, "usage", [at |-> now, org_id |-> NULL])
   /\ log' = << >>
   /\ turnkeySent' = { }
   /\ UNCHANGED << users, wallets, now, nodeEnv, signReq, createReq, issued, kmsOp, botReq >>

\* user_check[0][0] != telegram_id
BelongsTo(owner, tid) == owner = tid

\* UPDATE users SET recovery_mode = TRUE, recovery_org_id = %s,
\*   recovery_session_expires = %s WHERE telegram_id = %s
ActivateRecovery(us, tid, org_id, expiry_time) ==
   IF tid \notin DOMAIN us THEN us
   ELSE [us EXCEPT ![tid] = [@ EXCEPT !.recovery_mode = TRUE,
                                      !.recovery_org_id = org_id,
                                      !.recovery_session_expires = expiry_time]]

\* the format test of /recover and its ownership SELECT:
\* SELECT telegram_id FROM turnkey_wallets
\*   WHERE turnkey_sub_org_id = %s AND is_active = TRUE
cmd_recover(slot, tid, org_id) ==
   /\ botReq[slot] = Idle
   /\ IF ~ValidOrgFormat(org_id)
      THEN /\ resp' = Reply("recover", tid, "invalid-format",
                            [at |-> now, org_id |-> org_id])
           /\ botReq' = botReq
      ELSE /\ botReq' = [botReq EXCEPT ![slot] =
                 [pc |-> "owner", command |-> "recover", telegram_id |-> tid,
                  org_id |-> org_id,
                  user_check |-> { w.telegram_id : w \in { x \in wallets :
                                      x.turnkey_sub_org_id = org_id
                                      /\ x.is_active = TRUE } }]]
           /\ resp' = NoReply
   /\ log' = << >>
   /\ turnkeySent' = { }
   /\ UNCHANGED << users, wallets, now, nodeEnv, signReq, createReq, issued, kmsOp >>

\* the tests on the rows of the ownership SELECT: no row and a row of another
\* user are answered; otherwise the clock is read for the expiry
RecoverCheck(slot) ==
   /\ At(slot, "recover", "owner")
   /\ LET r == botReq[slot]
          seen == [at |-> now, org_id |-> r.org_id]
      IN IF r.user_check = { }
         THEN /\ resp' = Reply("recover", r.telegram_id, "no-wallet", seen)
              /\ botReq' = [botReq EXCEPT ![slot] = Idle]
         ELSE \E owner \in r.user_check :
                 IF ~BelongsTo(owner, r.telegram_id)
                 THEN /\ resp' = Reply("recover", r.telegram_id, "not-yours", seen)
                      /\ botReq' = [botReq EXCEPT ![slot] = Idle]
                 ELSE /\ botReq' = [botReq EXCEPT ![slot] =
                            [pc |-> "update", command |-> "recover",
                             telegram_id |-> r.telegram_id, org_id |-> r.org_id,
                             expiry_time |-> now + RECOVERY_SESSION_HOURS,
                             seen |-> seen]]
                      /\ resp' = NoReply
   /\ log' = << >>
   /\ turnkeySent' = { }
   /\ UNCHANGED << users, wallets, now, nodeEnv, signReq, createReq, issued, kmsOp >>

\* the UPDATE of /recover
RecoverUpdate(slot) ==
   /\ At(slot, "recover", "update")
   /\ users' = ActivateRecovery(users, botReq[slot].telegram_id,
                                botReq[slot].org_id, botReq[slot].expiry_time)
   /\ botReq' = [botReq EXCEPT ![slot] = [@ EXCEPT !.pc = "email"]]
   /\ log' = << >>
   /\ turnkeySent' = { }
   /\ resp' = NoReply
   /\ UNCHANGED << wallets, now, nodeEnv, signReq, createReq, issued, kmsOp >>

\* SELECT user_email FROM users WHERE telegram_id = %s (the text of the
\* column is not part of the model: the step keeps whether a row came back)
RecoverEmail(slot) ==
   /\ At(slot, "recover", "email")
   /\ botReq' = [botReq EXCEPT ![slot] =
         [pc |-> "reply", command |-> "recover",
          telegram_id |-> botReq[slot].telegram_id, org_id |-> botReq[slot].org_id,
          expiry_time |-> botReq[slot].expiry_time, seen |-> botReq[slot].seen,
          user_data |-> { botReq[slot].telegram_id } \cap DOMAIN users]]
   /\ log' = << >>
   /\ turnkeySent' = { }
   /\ resp' = NoReply
   /\ UNCHANGED << users, wallets, now, nodeEnv, signReq, createReq, issued, kmsOp >>

\* the reply and the log line of /recover
RecoverReply(slot) ==
   /\ At(slot, "recover", "reply")
   /\ resp' = Reply("recover", botReq[slot].telegram_id, "activated", botReq[slot].seen)
   /\ log' = << << << "Recovery mode activated for user ", botReq[slot].telegram_id,
                      ", org ", botReq[slot].org_id >> >> >>
   /\ botReq' = [botReq EXCEPT ![slot] = Idle]
   /\ turnkeySent' = { }
   /\ UNCHANGED << users, wallets, now, nodeEnv, signReq, createReq, issued, kmsOp >>

\* the UPDATE of /disable_recovery
cmd_disable_recovery(slot, tid) ==
   /\ botReq[slot] = Idle
   /\ users' = ClearRecovery(users, tid)
   /\ botReq' = [botReq EXCEPT ![slot] =
         [pc |-> "reply", command |-> "disable_recovery", telegram_id |-> tid]]
   /\ resp' = NoReply
   /\ log' = << >>
   /\ turnkeySent' = { }
   /\ UNCHANGED << wallets, now, nodeEnv, signReq, createReq, issued, kmsOp >>

\* the reply and the log line of /disable_recovery
DisableReply(slot) ==
   /\ At(slot, "disable_recovery", "reply")
   /\ resp' = Reply("disable_recovery", botReq[slot].telegram_id, "disabled",
                    [at |-> now])
   /\ log' = << << << "Recovery mode disabled for user ", botReq[slot].telegram_id >> >> >>
   /\ botReq' = [botReq EXCEPT ![slot] = Idle]
   /\ turnkeySent' = { }
   /\ UNCHANGED << users, wallets, now, nodeEnv, signReq, createReq, issued, kmsOp >>

\* the SELECT of /recovery_status:
\* SELECT recovery_mode, recovery_org_id, recovery_session_expires
\*   FROM users WHERE telegram_id = %s
cmd_recovery_status(slot, tid) ==
   /\ botReq[slot] = Idle
   /\ botReq' = [botReq EXCEPT ![slot] =
         [pc |-> "row", command |-> "recovery_status", telegram_id |-> tid,
          row |-> IF tid \notin DOMAIN users THEN NoRow
                  ELSE [found |-> TRUE,
                        recovery_mode |-> users[tid].recovery_mode,
                        recovery_org_id |-> users[tid].recovery_org_id,
                        recovery_session_expires |->
                           users[tid].recovery_session_expires]]]
   /\ resp' = NoReply
   /\ log' = << >>
   /\ turnkeySent' = { }
   /\ UNCHANGED << users, wallets, now, nodeEnv, signReq, createReq, issued, kmsOp >>

\* the handler goes on from its row: no row and no recovery mode are answered
\* at once; otherwise the clock is read and compared with the stored expiry
StatusClock(slot) ==
   /\ At(slot, "recovery_status", "row")
   /\ LET r == botReq[slot]
      IN IF r.row = NoRow
         THEN /\ resp' = Reply("recovery_status", r.telegram_id, "not-found",
                               [at |-> now])
              /\ botReq' = [botReq EXCEPT ![slot] = Idle]
         ELSE LET seen == [at |-> now, recovery_mode |-> r.row.recovery_mode,
                           recovery_org_id |-> r.row.recovery_org_id,
                           recovery_session_expires |->
                              r.row.recovery_session_expires]
              IN IF ~r.row.recovery_mode
                 THEN /\ resp' = Reply("recovery_status", r.telegram_id, "none", seen)
                      /\ botReq' = [botReq EXCEPT ![slot] = Idle]
                 ELSE /\ botReq' = [botReq EXCEPT ![slot] =
                            [pc |-> IF r.row.recovery_session_expires # NullTime
                                       /\ now > r.row.recovery_session_expires
                                    THEN "update" ELSE "reply",
                             command |-> "recovery_status",
                             telegram_id |-> r.telegram_id,
                             text |-> IF r.row.recovery_session_expires # NullTime
                                         /\ now > r.row.recovery_session_expires
                                      THEN "expired" ELSE "active",
                             seen |-> seen]]
                      /\ resp' = NoReply
   /\ log' = << >>
   /\ turnkeySent' = { }
   /\ UNCHANGED << users, wallets, now, nodeEnv, signReq, createReq, issued, kmsOp >>

\* the UPDATE of /recovery_status on the expired branch
StatusUpdate(slot) ==
   /\ At(slot, "recovery_status", "update")
   /\ users' = ClearRecovery(users, botReq[slot].telegram_id)
   /\ botReq' = [botReq EXCEPT ![slot] = [@ EXCEPT !.pc = "reply"]]
   /\ resp' = NoReply
   /\ log' = << >>
   /\ turnkeySent' = { }
   /\ UNCHANGED << wallets, now, nodeEnv, signReq, createReq, issued, kmsOp >>

\* the reply of /recovery_status when recovery mode was on: expired or active
StatusReply(slot) ==
   /\ At(slot, "recovery_status", "reply")
   /\ resp' = Reply("recovery_status", botReq[slot].telegram_id, botReq[slot].text,
                    botReq[slot].seen)
   /\ botReq' = [botReq EXCEPT ![slot] = Idle]
   /\ log' = << >>
   /\ turnkeySent' = { }
   /\ UNCHANGED << users, wallets, now, nodeEnv, signReq, createReq, issued, kmsOp >>

\* the fetch that joins every wallet row of the user, active or not
AccessRows_AnyWallet(us, ws, tid) ==
   IF tid \notin DOMAIN us THEN { }
   ELSE LET mine == { w \in ws : w.telegram_id = tid }
        IN IF mine = { }
           THEN { [user |-> us[tid], turnkey_sub_org_id |-> NULL] }
           ELSE { [user |-> us[tid], turnkey_sub_org_id |-> w.turnkey_sub_org_id] :
                     w \in mine }
\* SELECT ... FROM users u LEFT JOIN turnkey_wallets tw ON u.telegram_id = tw.telegram_id
\*   WHERE u.telegram_id = %s AND (tw.is_active = TRUE OR tw.is_active IS NULL)
AccessRows(us, ws, tid) ==
   IF tid \notin DOMAIN us THEN { }
   ELSE LET mine == { w \in ws : w.telegram_id = tid }
        IN IF mine = { }
           THEN { [user |-> us[tid], turnkey_sub_org_id |-> NULL] }
           ELSE { [user |-> us[tid], turnkey_sub_org_id |-> w.turnkey_sub_org_id] :
                     w \in { x \in mine : x.is_active = TRUE } }

Access(org, mode, status) == [org_id |-> org, access_mode |-> mode, access_status |-> status]

\* the decision of check_user_access over the first fetched row
AccessDecision(row, t) ==
   IF row.user.recovery_mode /\ row.user.recovery_org_id # NULL
   THEN IF row.user.recovery_session_expires # NullTime
           /\ t > row.user.recovery_session_expires
        THEN Access(row.turnkey_sub_org_id, "normal", "recovery_expired")
        ELSE Access(row.user.recovery_org_id, "recovery", "active")
   ELSE IF row.turnkey_sub_org_id # NULL
   THEN Access(row.turnkey_sub_org_id, "normal", "active")
   ELSE Access(NULL, "No wallet found", NULL)

AccessReply(tid, result, seen) ==
   [op |-> "check_user_access", telegram_id |-> tid, result |-> result, seen |-> seen]

\* the SELECT of the access check is carried out: the function holds the row
\* it takes (user_data[0]), or none
check_user_access(slot, tid) ==
   /\ botReq[slot] = Idle
   /\ \E row \in (IF AccessRows(users, wallets, tid) = { } THEN { NoRow }
                  ELSE AccessRows(users, wallets, tid)) :
         botReq' = [botReq EXCEPT ![slot] =
            [pc |-> "row", command |-> "check_user_access", telegram_id |-> tid,
             row |-> row]]
   /\ resp' = NoReply
   /\ log' = << >>
   /\ turnkeySent' = { }
   /\ UNCHANGED << users, wallets, now, nodeEnv, signReq, createReq, issued, kmsOp >>

\* the function goes on from its row: no row, and a row without an overlay
\* or without an overlay expiry, return at once; otherwise the clock is read
\* and compared with the overlay's expiry
AccessClock(slot) ==
   /\ At(slot, "check_user_access", "row")
   /\ LET r == botReq[slot]
      IN IF r.row = NoRow
         THEN /\ resp' = AccessReply(r.telegram_id, Access(NULL, "No wallet found", NULL),
                                     [at |-> now])
              /\ botReq' = [botReq EXCEPT ![slot] = Idle]
         ELSE IF ~(/\ r.row.user.recovery_mode
                   /\ r.row.user.recovery_org_id # NULL
                   /\ r.row.user.recovery_session_expires # NullTime)
         THEN /\ resp' = AccessReply(r.telegram_id, AccessDecision(r.row, now),
                                     [at |-> now, row |-> r.row])
              /\ botReq' = [botReq EXCEPT ![slot] = Idle]
         ELSE /\ botReq' = [botReq EXCEPT ![slot] =
                    [pc |-> IF AccessDecision(r.row, now).access_status
                               = "recovery_expired"
                            THEN "update" ELSE "return",
                     command |-> "check_user_access", telegram_id |-> r.telegram_id,
                     result |-> AccessDecision(r.row, now),
                     seen |-> [at |-> now, row |-> r.row]]]
              /\ resp' = NoReply
   /\ log' = << >>
   /\ turnkeySent' = { }
   /\ UNCHANGED << users, wallets, now, nodeEnv, signReq, createReq, issued, kmsOp >>

\* the UPDATE of the access check on the expired branch
AccessUpdate(slot) ==
   /\ At(slot, "check_user_access", "update")
   /\ users' = ClearRecovery(users, botReq[slot].telegram_id)
   /\ botReq' = [botReq EXCEPT ![slot] = [@ EXCEPT !.pc = "return"]]
   /\ resp' = NoReply
   /\ log' = << >>
   /\ turnkeySent' = { }
   /\ UNCHANGED << wallets, now, nodeEnv, signReq, createReq, issued, kmsOp >>

\* what the access check returns once it has read the clock, after the log
\* line of the expired branch
AccessReturn(slot) ==
   /\ At(slot, "check_user_access", "return")
   /\ resp' = AccessReply(botReq[slot].telegram_id, botReq[slot].result,
                          botReq[slot].seen)
   /\ log' = IF botReq[slot].result.access_status = "recovery_expired"
             THEN << << << "Auto-disabled expired recovery session for user ",
                           botReq[slot].telegram_id >> >> >>
             ELSE << >>
   /\ botReq' = [botReq EXCEPT ![slot] = Idle]
   /\ turnkeySent' = { }
   /\ UNCHANGED << users, wallets, now, nodeEnv, signReq, createReq, issued, kmsOp >>

-----------------------------------------------------------------------------
(* The stale-session fix scripts *)

ClearSession(u) ==
   [u EXCEPT !.turnkey_session_id = NULL,
             !.temp_api_public_key = NullText,
             !.temp_api_private_key = NullText,
             !.kms_encrypted_session_key = NullText,
             !.kms_key_id = NULL,
             !.session_expiry = NullTime,
             !.session_created_at = NullTime]

\* OPTION 2: clean up all expired sessions
CleanupExpired ==
   /\ users' = [ tid \in DOMAIN users |->
                   IF /\ users[tid].session_expiry # NullTime
                      /\ users[tid].session_expiry < now
                      /\ \/ users[tid].turnkey_session_id # NULL
                         \/ users[tid].kms_encrypted_session_key # NullText
                   THEN ClearSession(users[tid]) ELSE users[tid] ]
   /\ resp' = [op |-> "cleanup"]
   /\ log' = << >>
   /\ turnkeySent' = { }
   /\ UNCHANGED << wallets, now, nodeEnv, signReq, createReq, issued, kmsOp, botReq >>

\* the literal the script of OPTION 1 names: it is compared with the session
\* id of the users and with the organization id of the wallets
StaleIds == { "S0", OrgO1 }

\* OPTION 1, first statement: UPDATE users SET ... WHERE turnkey_session_id = '<id>'
CleanupStale(id) ==
   /\ users' = [ tid \in DOMAIN users |->
                   IF users[tid].turnkey_session_id = id
                   THEN ClearSession(users[tid]) ELSE users[tid] ]
   /\ resp' = [op |-> "cleanup"]
   /\ log' = << >>
   /\ turnkeySent' = { }
   /\ UNCHANGED << wallets, now, nodeEnv, signReq, createReq, issued, kmsOp, botReq >>

\* OPTION 1, second statement:
\* DELETE FROM turnkey_wallets WHERE turnkey_sub_org_id = '<id>'
DeleteStaleWallets(id) ==
   /\ wallets' = { w \in wallets : w.turnkey_sub_org_id # id }
   /\ resp' = [op |-> "cleanup"]
   /\ log' = << >>
   /\ turnkeySent' = { }
   /\ UNCHANGED << users, now, nodeEnv, signReq, createReq, issued, kmsOp, botReq >>

\* the targeted fix for one user (what the improved logout does)
FixUser(tid) ==
   /\ users' = [users EXCEPT ![tid] = ClearSession(@)]
   /\ resp' = [op |-> "cleanup"]
   /\ log' = << >>
   /\ turnkeySent' = { }
   /\ UNCHANGED << wallets, now, nodeEnv, signReq, createReq, issued, kmsOp, botReq >>

Tick ==
   /\ now < MaxTime
   /\ now' = now + 1
   /\ resp' = NoReply
   /\ log' = << >>
   /\ turnkeySent' = { }
   /\ UNCHANGED << users, wallets, nodeEnv, signReq, createReq, issued, kmsOp, botReq >>

-----------------------------------------------------------------------------
(* Initial store contents: what the registration, migration and earlier    *)
(* login flows leave behind.                                               *)

NodeEnvSettings == { Undefined, "production" }

LegacyPrivateKey == << "b", "e" >>

CloudPublicKey == << "0", "3", "c", "a" >>

PriorSessionKey == << "0", "9" >>

PriorSession(env) ==
   encryptSessionKeys(PublicPoint(PriorSessionKey), PriorSessionKey, env)

Shapes == { "none", "envelope", "legacy", "marker", "envelope+legacy" }

InitialExpiries == { NullTime, 2 }

InitialUser(shape, expiry, env) ==
   UserRecord(
      IF shape \in { "envelope", "envelope+legacy" }
         THEN PriorSession(env).encryptedData ELSE NullText,
      IF shape \in { "envelope", "envelope+legacy" } THEN KmsKeyId ELSE NULL,
      IF shape = "none" THEN NULL ELSE "S0",
      IF shape \in { "legacy", "envelope+legacy" }
         THEN PublicPoint(LegacyPrivateKey) ELSE NullText,
      IF shape \in { "legacy", "envelope+legacy" } THEN LegacyPrivateKey ELSE NullText,
      expiry,
      IF expiry = NullTime THEN NullTime ELSE 0,
      IF shape \in { "legacy", "marker", "envelope+legacy" } THEN "old-db" ELSE NULL)

WalletSetups == { "none", "active", "cloud", "inactive", "active+inactive" }

InitialWallets(setup) ==
   (IF setup \in { "active", "active+inactive" }
       THEN { Wallet("U1", OrgO1, TRUE, NullText) } ELSE { })
   \cup (IF setup = "cloud" THEN { Wallet("U1", OrgO1, TRUE, CloudPublicKey) } ELSE { })
   \cup (IF setup \in { "inactive", "active+inactive" }
            THEN { Wallet("U1", OrgO2, FALSE, NullText) } ELSE { })
   \cup { Wallet("U2", OrgO3, TRUE, NullText), Wallet(GhostUser, OrgO4, TRUE, NullText) }

NoKmsOp == [pc |-> "none"]

\* no bot handler is in flight
NoBotReq == [ slot \in BotSlots |-> Idle ]

Init ==
   /\ nodeEnv \in NodeEnvSettings
   /\ \E shape \in Shapes, expiry \in InitialExpiries :
         users = [ tid \in Users |->
                     IF tid = "U1" THEN InitialUser(shape, expiry, nodeEnv)
                     ELSE InitialUser("legacy", NullTime, nodeEnv) ]
   /\ \E setup \in WalletSetups : wallets = InitialWallets(setup)
   /\ now = 0
   /\ signReq = Idle
   /\ createReq = [ slot \in CreateSlots |-> Idle ]
   /\ issued = 0
   /\ resp = [op |-> "none"]
   /\ log = << >>
   /\ turnkeySent = { }
   /\ kmsOp = NoKmsOp
   /\ botReq = NoBotReq

ValidToken(tid) == Token(tid, MaxTime + 2, JwtSecret)

\* one request per outcome of the gate and of the input checks
SignInputs ==
   { [header |-> h, xdr |-> "TX1", include_fee |-> FALSE] :
        h \in { NoHeader,
                Header("Basic", ValidToken("U1")),
                Header("Bearer", Token("U1", 0, JwtSecret)),
                Header("Bearer", Token("U1", 2, JwtSecret)),
                Header("Bearer", Token("U1", MaxTime + 2, "forged")) } }
   \cup { [header |-> Header("Bearer", ValidToken(tid)), xdr |-> x, include_fee |-> f] :
             tid \in Users \cup { GhostUser }, x \in XdrInputs, f \in { FALSE } }
   \cup { [header |-> Header("Bearer", ValidToken("U1")), xdr |-> "TX1", include_fee |-> TRUE] }

\* a well-formed request per body, and the faulty variants of the first
CreateInputs ==
   { Request(b, "stamp", EphA, ValidInitData) : b \in BodyInputs }
   \cup { Request(Body(OrgO1, [expirationSeconds |-> 1]), "stamp", eph, ValidInitData) :
             eph \in EphemeralInputs }
   \cup { Request(Body(OrgO1, [expirationSeconds |-> 1]), "stamp", EphA, ForgedInitData) }

\* what the outside world does to a create-session request: the authority's
\* verdict, the key its bundle is sealed to, the master-key service's health
WorldInputs ==
   { [turnkey |-> "ok", target |-> EphemeralPublic(EphA)],
     [turnkey |-> "error", target |-> EphemeralPublic(EphA)],
     [turnkey |-> "ok", target |-> EphemeralPublic(EphShort)],
     [turnkey |-> "zero-key", target |-> EphemeralPublic(EphA)] }

RecoverOrgInputs == { OrgO1, OrgO2, OrgO3, UnknownOrg, MalformedOrg }

Commanders == { "U1" }

SignStep ==
   \/ \E i \in SignInputs : SignStart(i.header, i.xdr, i.include_fee)
   \/ SignSelect
   \/ SignClock
   \/ SignRefuse
   \/ SignFetch
   \/ SignRaise
   \/ \E authority \in { "ok", "fail" } : SignFinish(authority)

\* the steps of a create-session request after its arrival
CreateSteps(slot) ==
   \/ \E w \in WorldInputs : CreateFetch(slot, w.turnkey, w.target)
   \/ CreateText(slot)
   \/ CreateSelect(slot)
   \/ CreateClock(slot)
   \/ \E kmsUp \in BOOLEAN : CreateEncrypt(slot, kmsUp)
   \/ CreateCommit(slot)
   \/ CreateDone(slot)

CreateStep(slots) ==
   \/ \E slot \in slots, req \in CreateInputs : CreateStart(slot, req)
   \/ \E slot \in slots : CreateSteps(slot)

\* the later statements of the bot handlers in flight
BotSteps ==
   \/ \E slot \in BotSlots : RecoverCheck(slot)
   \/ \E slot \in BotSlots : RecoverEmail(slot)
   \/ \E slot \in BotSlots : RecoverUpdate(slot)
   \/ \E slot \in BotSlots : RecoverReply(slot)
   \/ \E slot \in BotSlots : DisableReply(slot)
   \/ \E slot \in BotSlots : StatusClock(slot)
   \/ \E slot \in BotSlots : StatusUpdate(slot)
   \/ \E slot \in BotSlots : StatusReply(slot)
   \/ \E slot \in BotSlots : AccessClock(slot)
   \/ \E slot \in BotSlots : AccessUpdate(slot)
   \/ \E slot \in BotSlots : AccessReturn(slot)

RecoveryStep ==
   \/ \E tid \in Commanders : RecoverUsage(tid)
   \/ \E slot \in FreeSlot(BotSlots), tid \in Commanders, org \in RecoverOrgInputs :
         cmd_recover(slot, tid, org)
   \/ \E slot \in FreeSlot(BotSlots), tid \in Commanders : cmd_disable_recovery(slot, tid)
   \/ \E slot \in FreeSlot(BotSlots), tid \in Commanders : cmd_recovery_status(slot, tid)
   \/ \E slot \in FreeSlot(BotSlots), tid \in Commanders : check_user_access(slot, tid)
   \/ BotSteps

CleanupStep ==
   \/ CleanupExpired
   \/ \E id \in StaleIds : CleanupStale(id)
   \/ \E id \in StaleIds : DeleteStaleWallets(id)
   \/ \E tid \in Users : FixUser(tid)

Next ==
   \/ Tick
   \/ SignStep
   \/ CreateStep(CreateSlots)
   \/ RecoveryStep
   \/ CleanupStep

Spec == Init /\ [][Next]_vars

-----------------------------------------------------------------------------
(* The signer service alone, over every initial store *)

NextSign ==
   \/ Tick
   \/ \E i \in SignInputs : SignStart(i.header, i.xdr, i.include_fee)
   \/ SignSelect
   \/ SignClock
   \/ SignRefuse
   \/ SignFetch
   \/ SignRaise
   \/ \E authority \in { "ok", "fail" } : SignFinish(authority)
   \/ CleanupExpired
   \/ \E id \in StaleIds : CleanupStale(id)
   \/ \E tid \in Users : FixUser(tid)

SpecSign == Init /\ [][NextSign]_vars


-----------------------------------------------------------------------------
(* The recovery commands alone, over every wallet setup *)

InitRecovery ==
   /\ Init
   /\ nodeEnv = Undefined
   /\ users["U1"] = InitialUser("legacy", NullTime, Undefined)

NextRecovery ==
   \/ Tick
   \/ \E tid \in Commanders : RecoverUsage(tid)
   \/ \E slot \in FreeSlot(BotSlots), tid \in Commanders, org \in RecoverOrgInputs :
         cmd_recover(slot, tid, org)
   \/ \E slot \in BotSlots : RecoverCheck(slot)
   \/ \E slot \in BotSlots : RecoverEmail(slot)
   \/ \E slot \in BotSlots : RecoverUpdate(slot)
   \/ \E slot \in BotSlots : RecoverReply(slot)
   \/ \E slot \in FreeSlot(BotSlots), tid \in Commanders : cmd_disable_recovery(slot, tid)
   \/ \E slot \in BotSlots : DisableReply(slot)
   \/ \E slot \in FreeSlot(BotSlots), tid \in Commanders : cmd_recovery_status(slot, tid)
   \/ \E slot \in BotSlots : StatusClock(slot)
   \/ \E slot \in BotSlots : StatusUpdate(slot)
   \/ \E slot \in BotSlots : StatusReply(slot)
   \/ \E slot \in FreeSlot(BotSlots), tid \in Commanders : check_user_access(slot, tid)
   \/ \E slot \in BotSlots : AccessClock(slot)
   \/ \E slot \in BotSlots : AccessUpdate(slot)
   \/ \E slot \in BotSlots : AccessReturn(slot)
   \/ DeleteStaleWallets(OrgO1)

SpecRecovery == InitRecovery /\ [][NextRecovery]_vars

-----------------------------------------------------------------------------
(* The create-session route alone, one request at a time, over every       *)
(* prior credential shape and every environment setting *)

InitCreate ==
   /\ Init
   /\ wallets = InitialWallets("active+inactive")
   /\ \E shape \in { "none", "legacy", "envelope" } :
         users["U1"] = InitialUser(shape, 2, nodeEnv)

NextCreate ==
   \/ Tick
   \/ \E req \in CreateInputs : CreateStart("r1", req)
   \/ \E w \in WorldInputs : CreateFetch("r1", w.turnkey, w.target)
   \/ CreateText("r1")
   \/ CreateSelect("r1")
   \/ CreateClock("r1")
   \/ \E kmsUp \in BOOLEAN : CreateEncrypt("r1", kmsUp)
   \/ CreateCommit("r1")
   \/ CreateDone("r1")

SpecCreate == InitCreate /\ [][NextCreate]_vars

\* the same route for a user who holds an Envelope Session, in production
InitCreateOne ==
   /\ Init
   /\ nodeEnv = "production"
   /\ wallets = InitialWallets("active+inactive")
   /\ users["U1"] = InitialUser("envelope", 2, nodeEnv)

SpecCreateOne == InitCreateOne /\ [][NextCreate]_vars

-----------------------------------------------------------------------------
(* The envelope key service alone: one key pair is encrypted under the     *)
(* environment setting of the encrypting process and decrypted under the   *)
(* setting of the decrypting process.                                      *)

KeyAlphabet == { "a", "\"", "\\" }

RECURSIVE TextsUpTo(_)
TextsUpTo(n) ==
   IF n = 0 THEN { << >> }
   ELSE TextsUpTo(n - 1)
        \cup { Append(t, c) : t \in { x \in TextsUpTo(n - 1) : Len(x) = n - 1 },
                              c \in KeyAlphabet }

KeyTexts == TextsUpTo(MaxKeyLen)

KmsEnvSettings == { Undefined, "", "development", "production" }

InitKmsOver(texts) ==
   /\ nodeEnv = Undefined
   /\ users = [ tid \in Users |-> InitialUser("none", NullTime, Undefined) ]
   /\ wallets = InitialWallets("none")
   /\ now = 0
   /\ signReq = Idle
   /\ createReq = [ slot \in CreateSlots |-> Idle ]
   /\ issued = 0
   /\ resp = [op |-> "none"]
   /\ log = << >>
   /\ turnkeySent = { }
   /\ \E pub \in texts, priv \in texts :
         kmsOp = [pc |-> "plain", pair |-> KeyPair(pub, priv)]
   /\ botReq = NoBotReq

InitKms == InitKmsOver(KeyTexts)

KmsSeal(env) ==
   /\ kmsOp.pc = "plain"
   /\ kmsOp' = [pc |-> "sealed", pair |-> kmsOp.pair, sealedUnder |-> env,
                sealed |-> encryptSessionKeys(kmsOp.pair.apiPublicKey,
                                              kmsOp.pair.apiPrivateKey, env)]
   /\ log' = << >>
   /\ resp' = NoReply
   /\ UNCHANGED << users, wallets, now, nodeEnv, signReq, createReq, issued, turnkeySent, botReq >>

\* the catch of decryptSessionKeys: console.error('KMS decryption failed:', error)
DecryptLog(result) ==
   IF result.ok THEN << >> ELSE << << "KMS decryption failed:", result.error >> >>

KmsOpen(env) ==
   /\ kmsOp.pc = "sealed"
   /\ kmsOp' = [pc |-> "opened", pair |-> kmsOp.pair, sealedUnder |-> kmsOp.sealedUnder,
                openedUnder |-> env,
                result |-> decryptSessionKeys(kmsOp.sealed.encryptedData, env)]
   /\ log' = DecryptLog(kmsOp'.result)
   /\ resp' = NoReply
   /\ UNCHANGED << users, wallets, now, nodeEnv, signReq, createReq, issued, turnkeySent, botReq >>

NextKms ==
   \/ \E env \in KmsEnvSettings : KmsSeal(env)
   \/ \E env \in KmsEnvSettings : KmsOpen(env)

SpecKms == InitKms /\ [][NextKms]_vars

\* the same service handed pairs of which a member may be undefined
PartialTexts == { UndefinedText } \cup TextsUpTo(1)

InitKmsPartial == InitKmsOver(PartialTexts)

SpecKmsPartial == InitKmsPartial /\ [][NextKms]_vars

-----------------------------------------------------------------------------
(* The envelope key service reading a ciphertext that was damaged in the   *)
(* store: cut short by one base64 group, or with its first character       *)
(* replaced by the next one of the alphabet.                               *)

Damages == { "truncated", "altered" }

Damaged(text, damage) ==
   IF damage = "truncated" THEN SubSeq(text, 1, Len(text) - 4)
   ELSE << B64Char((B64Index(text[1]) + 1) % 64) >> \o Tail(text)

KmsOpenDamaged(env, damage) ==
   /\ kmsOp.pc = "sealed"
   /\ kmsOp' = [pc |-> "opened", pair |-> kmsOp.pair, sealedUnder |-> kmsOp.sealedUnder,
                openedUnder |-> env, sealed |-> kmsOp.sealed, damage |-> damage,
                result |-> decryptSessionKeys(Damaged(kmsOp.sealed.encryptedData, damage),
                                              env)]
   /\ log' = DecryptLog(kmsOp'.result)
   /\ resp' = NoReply
   /\ UNCHANGED << users, wallets, now, nodeEnv, signReq, createReq, issued, turnkeySent, botReq >>

NextKmsDamage ==
   \/ \E env \in KmsEnvSettings : KmsSeal(env)
   \/ \E env \in KmsEnvSettings : KmsOpen(env)
   \/ \E env \in KmsEnvSettings, damage \in Damages : KmsOpenDamaged(env, damage)

SpecKmsDamage == InitKms /\ [][NextKmsDamage]_vars

-----------------------------------------------------------------------------
(* Re-authentication of a user who may be in recovery mode: create-session *)
(* with its well-formed request, the recovery commands, the access check.  *)

InitReauth ==
   /\ Init
   /\ nodeEnv = "production"
   /\ wallets = InitialWallets("active+inactive")
   /\ \E shape \in { "legacy", "envelope" } :
         users["U1"] = InitialUser(shape, 2, nodeEnv)

ReauthRequests ==
   { Request(Body(OrgO1, [expirationSeconds |-> 1]), "stamp", EphA, ValidInitData) }

NextReauth ==
   \/ Tick
   \/ \E req \in ReauthRequests : CreateStart("r1", req)
   \/ \E turnkey \in { "ok", "error" } : CreateFetch("r1", turnkey, EphemeralPublic(EphA))
   \/ CreateText("r1")
   \/ CreateSelect("r1")
   \/ CreateClock("r1")
   \/ CreateEncrypt("r1", TRUE)
   \/ CreateCommit("r1")
   \/ CreateDone("r1")
   \/ \E org \in { OrgO1, OrgO3 } : cmd_recover("b1", "U1", org)
   \/ RecoverCheck("b1")
   \/ RecoverEmail("b1")
   \/ RecoverUpdate("b1")
   \/ RecoverReply("b1")
   \/ cmd_disable_recovery("b1", "U1")
   \/ DisableReply("b1")
   \/ check_user_access("b1", "U1")
   \/ AccessClock("b1")
   \/ AccessUpdate("b1")
   \/ AccessReturn("b1")

SpecReauth == InitReauth /\ [][NextReauth]_vars

-----------------------------------------------------------------------------
(* Signing while in recovery mode: the recovery commands, the access check *)
(* and the signer with its well-formed request, over the credential shapes *)

InitOverlaySign ==
   /\ Init
   /\ nodeEnv = "production"
   /\ wallets \in { InitialWallets("active+inactive"), InitialWallets("cloud") }
   /\ \E shape \in { "none", "legacy", "envelope" } :
         users["U1"] = InitialUser(shape, 2, nodeEnv)

\* (no step of this specification clears the key columns or the wallet
\* rows a sign request resolved on: the key fetch finds them and the raise of
\* the branch is not part of it)
NextOverlaySign ==
   \/ Tick
   \/ \E org \in { OrgO1, OrgO3 } : cmd_recover("b1", "U1", org)
   \/ RecoverCheck("b1")
   \/ RecoverEmail("b1")
   \/ RecoverUpdate("b1")
   \/ RecoverReply("b1")
   \/ cmd_disable_recovery("b1", "U1")
   \/ DisableReply("b1")
   \/ cmd_recovery_status("b1", "U1")
   \/ StatusClock("b1")
   \/ StatusUpdate("b1")
   \/ StatusReply("b1")
   \/ check_user_access("b1", "U1")
   \/ AccessClock("b1")
   \/ AccessUpdate("b1")
   \/ AccessReturn("b1")
   \/ SignStart(Header("Bearer", ValidToken("U1")), "TX1", FALSE)
   \/ SignSelect
   \/ SignClock
   \/ SignRefuse
   \/ SignFetch
   \/ \E authority \in { "ok", "fail" } : SignFinish(authority)

SpecOverlaySign == InitOverlaySign /\ [][NextOverlaySign]_vars

-----------------------------------------------------------------------------
(* Two create-session requests for the same user in flight at once         *)

InitConcurrent ==
   /\ Init
   /\ nodeEnv = "production"
   /\ wallets = InitialWallets("active+inactive")
   /\ users["U1"] = InitialUser("envelope", 2, nodeEnv)

ConcurrentRequests ==
   { Request(Body(OrgO1, [expirationSeconds |-> s]), "stamp", EphA, ValidInitData) :
        s \in { 1, 2 } }

NextConcurrent ==
   \/ Tick
   \/ \E slot \in CreateSlots, req \in ConcurrentRequests : CreateStart(slot, req)
   \/ \E slot \in CreateSlots, turnkey \in { "ok", "error" } :
         CreateFetch(slot, turnkey, EphemeralPublic(EphA))
   \/ \E slot \in CreateSlots : CreateText(slot)
   \/ \E slot \in CreateSlots : CreateSelect(slot)
   \/ \E slot \in CreateSlots : CreateClock(slot)
   \/ \E slot \in CreateSlots : CreateEncrypt(slot, TRUE)
   \/ \E slot \in CreateSlots : CreateCommit(slot)
   \/ \E slot \in CreateSlots : CreateDone(slot)

SpecConcurrent == InitConcurrent /\ [][NextConcurrent]_vars

-----------------------------------------------------------------------------
(* The resolver over every combination of populated columns: each          *)
(* nullable credential column of the user is null or populated on its own, *)
(* as registration, migration and manual fixes may leave it, with every    *)
(* wallet setup; the signer runs with its well-formed request.             *)

InitResolve ==
   /\ nodeEnv \in NodeEnvSettings
   /\ \E kms \in { NullText, PriorSession(nodeEnv).encryptedData },
         kid \in { NULL, KmsKeyId },
         tpub \in { NullText, PublicPoint(LegacyPrivateKey) },
         tpriv \in { NullText, LegacyPrivateKey },
         old \in { NULL, "old-db" },
         expiry \in InitialExpiries :
         users = [ tid \in Users |->
                     IF tid = "U1"
                     THEN UserRecord(kms, kid, "S0", tpub, tpriv, expiry,
                                     IF expiry = NullTime THEN NullTime ELSE 0, old)
                     ELSE InitialUser("legacy", NullTime, nodeEnv) ]
   /\ wallets \in { InitialWallets(setup) : setup \in WalletSetups }
                  \cup { InitialWallets("none")
                            \cup { Wallet("U1", OrgO2, FALSE, CloudPublicKey) },
                         InitialWallets("cloud")
                            \cup { Wallet("U1", OrgO2, FALSE, NullText) } }
   /\ now = 0
   /\ signReq = Idle
   /\ createReq = [ slot \in CreateSlots |-> Idle ]
   /\ issued = 0
   /\ resp = [op |-> "none"]
   /\ log = << >>
   /\ turnkeySent = { }
   /\ kmsOp = NoKmsOp
   /\ botReq = NoBotReq

\* (no step of this specification clears the key columns or the wallet
\* rows a sign request resolved on: the key fetch finds them and the raise of
\* the branch is not part of it)
NextResolve ==
   \/ Tick
   \/ SignStart(Header("Bearer", ValidToken("U1")), "TX1", FALSE)
   \/ SignSelect
   \/ SignClock
   \/ SignRefuse
   \/ SignFetch
   \/ \E authority \in { "ok", "fail" } : SignFinish(authority)

SpecResolve == InitResolve /\ [][NextResolve]_vars

-----------------------------------------------------------------------------
(* Create-session followed by signing, for a user who starts without an    *)
(* Envelope Session and whose organization records are active or not       *)

InitCreateSign ==
   /\ Init
   /\ nodeEnv = "production"
   /\ wallets \in { InitialWallets("inactive"), InitialWallets("active+inactive") }
   /\ \E shape \in { "none", "legacy" }, expiry \in InitialExpiries :
         users["U1"] = InitialUser(shape, expiry, nodeEnv)

CreateSignRequests ==
   { Request(Body(org, [expirationSeconds |-> 1]), "stamp", EphA, ValidInitData) :
        org \in { OrgO1, OrgO2 } }

\* (no step of this specification clears the key columns or the wallet
\* rows a sign request resolved on: the key fetch finds them and the raise of
\* the branch is not part of it)
NextCreateSign ==
   \/ Tick
   \/ \E req \in CreateSignRequests : CreateStart("r1", req)
   \/ \E turnkey \in { "ok", "error" } : CreateFetch("r1", turnkey, EphemeralPublic(EphA))
   \/ CreateText("r1")
   \/ CreateSelect("r1")
   \/ CreateClock("r1")
   \/ CreateEncrypt("r1", TRUE)
   \/ CreateCommit("r1")
   \/ CreateDone("r1")
   \/ SignStart(Header("Bearer", ValidToken("U1")), "TX1", FALSE)
   \/ SignSelect
   \/ SignClock
   \/ SignRefuse
   \/ SignFetch
   \/ \E authority \in { "ok", "fail" } : SignFinish(authority)

SpecCreateSign == InitCreateSign /\ [][NextCreateSign]_vars

-----------------------------------------------------------------------------
(* The session life cycle of one user: expiry, the stale-session cleanup,  *)
(* the recovery commands, signing and re-authentication                    *)

InitRelogin ==
   /\ Init
   /\ nodeEnv = "production"
   /\ wallets = InitialWallets("cloud")
   /\ users["U1"] = InitialUser("envelope", 2, nodeEnv)

ReloginRequest ==
   Request(Body(OrgO1, [expirationSeconds |-> 1]), "stamp", EphA, ValidInitData)

\* the user sends the next request once the previous one has been answered;
\* the clock and the cleanup script run at any time
Settled ==
   /\ signReq = Idle
   /\ createReq = [ slot \in CreateSlots |-> Idle ]
   /\ botReq = NoBotReq

NextRelogin ==
   \/ Tick
   \/ Settled /\ CreateStart("r1", ReloginRequest)
   \/ CreateFetch("r1", "ok", EphemeralPublic(EphA))
   \/ CreateText("r1")
   \/ CreateSelect("r1")
   \/ CreateClock("r1")
   \/ CreateEncrypt("r1", TRUE)
   \/ CreateCommit("r1")
   \/ CreateDone("r1")
   \/ Settled /\ SignStart(Header("Bearer", ValidToken("U1")), "TX1", FALSE)
   \/ SignSelect
   \/ SignClock
   \/ SignRefuse
   \/ SignFetch
   \/ SignRaise
   \/ SignFinish("ok")
   \/ Settled /\ cmd_recover("b1", "U1", OrgO1)
   \/ RecoverCheck("b1")
   \/ RecoverEmail("b1")
   \/ RecoverUpdate("b1")
   \/ RecoverReply("b1")
   \/ Settled /\ cmd_disable_recovery("b1", "U1")
   \/ DisableReply("b1")
   \/ CleanupExpired

SpecRelogin == InitRelogin /\ [][NextRelogin]_vars

-----------------------------------------------------------------------------
(* Properties of the resolver and the signer *)

HasEnvelope(row) ==
   Truthy(row.user.kms_encrypted_session_key) /\ row.user.kms_key_id # NULL

HasCloudKeys(row) == Truthy(row.tw.turnkey_api_public_key)

HasLegacyDirect(row) ==
   Truthy(row.user.temp_api_public_key) /\ Truthy(row.user.temp_api_private_key)

HasLegacyMarker(row) == row.user.source_old_db # NULL

ExpiredAt(row, t) == row.user.session_expiry # NullTime /\ row.user.session_expiry < t

StoreRows == UNION { ResolverRows(users, wallets, tid) : tid \in Users }

\* the reply just sent is that of a sign request that got as far as the resolver
SignResolved == resp.op = "sign" /\ resp.seen.at # NullTime

\* the reply just sent is that of a sign request that reached the signing branch
SignDispatched == SignResolved /\ resp.status \in { 200, 500 }

RefusedNoActiveSession ==
   /\ resp.status = 401
   /\ resp.body.error = "No active session"
   /\ resp.body.requires_login = TRUE

(* C1 as stated: whatever shape is populated (the legacy marker without    *)
(* keys included), a session expiry earlier than now makes resolve return  *)
(* 'session_expired' with has_active_session false, and makes sign fail    *)
(* with 401 'No active session'.                                           *)
C1_ExpiredAlwaysSessionExpired ==
   /\ \A row \in StoreRows :
         (/\ HasEnvelope(row) \/ HasCloudKeys(row) \/ HasLegacyDirect(row)
                \/ HasLegacyMarker(row)
          /\ ExpiredAt(row, now))
         => /\ get_user_authenticator_type(row, now).signing_method = "session_expired"
            /\ ~get_user_authenticator_type(row, now).has_active_session
   /\ (/\ SignResolved
       /\ HasEnvelope(resp.seen.row) \/ HasCloudKeys(resp.seen.row)
             \/ HasLegacyDirect(resp.seen.row) \/ HasLegacyMarker(resp.seen.row)
       /\ ExpiredAt(resp.seen.row, resp.seen.at))
      => RefusedNoActiveSession /\ resp.body.signing_method = "session_expired"

(* C1 amended: with an Envelope Session, Cloud-Stored Keys or both Legacy  *)
(* Direct keys populated, an expiry earlier than now makes resolve return  *)
(* 'session_expired' with has_active_session false; with only the legacy   *)
(* marker the method stays 'python_bot_legacy', has_active_session false.  *)
(* In all four cases an authorized sign request that carries an XDR is     *)
(* refused with 401 'No active session' and no signed transaction.         *)
C1_ExpiredNeverSigns ==
   /\ \A row \in StoreRows :
         ExpiredAt(row, now) =>
            LET info == get_user_authenticator_type(row, now)
            IN /\ (HasEnvelope(row) \/ HasCloudKeys(row) \/ HasLegacyDirect(row))
                  => info.signing_method = "session_expired" /\ ~info.has_active_session
               /\ (HasLegacyMarker(row) /\ ~HasEnvelope(row) /\ ~HasCloudKeys(row)
                      /\ ~HasLegacyDirect(row))
                  => info.signing_method = "python_bot_legacy" /\ ~info.has_active_session
   /\ (/\ SignResolved
       /\ HasEnvelope(resp.seen.row) \/ HasCloudKeys(resp.seen.row)
             \/ HasLegacyDirect(resp.seen.row) \/ HasLegacyMarker(resp.seen.row)
       /\ ExpiredAt(resp.seen.row, resp.seen.at))
      => /\ RefusedNoActiveSession
         /\ "signed_xdr" \notin DOMAIN resp.body
         /\ resp.body.signing_method =
               IF HasEnvelope(resp.seen.row) \/ HasCloudKeys(resp.seen.row)
                     \/ HasLegacyDirect(resp.seen.row)
               THEN "session_expired" ELSE "python_bot_legacy"

\* a sign request was refused for a user whose key-bearing shape had expired
C1_Witness ==
   /\ SignResolved
   /\ HasEnvelope(resp.seen.row) \/ HasLegacyDirect(resp.seen.row)
   /\ ExpiredAt(resp.seen.row, resp.seen.at)
   /\ resp.status = 401
   /\ resp.body.signing_method = "session_expired"

(* C2: a sign request resolved to python_bot_tg_cloud never ends with a    *)
(* server-signed transaction; it ends with ClientSideSigningRequired.      *)
C2_CloudKeysNeverServerSigned ==
   (SignDispatched /\ resp.seen.user_info.signing_method = "python_bot_tg_cloud")
   => /\ resp.status # 200
      /\ resp.body.error = "ClientSideSigningRequired"

(* C3: when a user's row has both an Envelope Session and both Legacy      *)
(* Direct keys, resolve reports InconsistentState and returns neither      *)
(* shape as the signing method.                                            *)
C3_BothShapesInconsistent ==
   \A row \in StoreRows :
      (HasEnvelope(row) /\ HasLegacyDirect(row))
      => LET info == get_user_authenticator_type(row, now)
         IN /\ info.signing_method \notin { "python_bot_kms", "python_bot_legacy" }
            /\ info.authenticator_type = "inconsistent_state"

(* C4: for a user with an unexpired Envelope Session and no Recovery       *)
(* Overlay, resolve returns python_bot_kms with has_active_session true,   *)
(* and a sign request whose ciphertext decrypts correctly succeeds with a  *)
(* transaction signed under the user's organization id and key id (unless  *)
(* the custody authority itself fails).                                    *)
C4_EnvelopeSessionSigns ==
   /\ \A row \in StoreRows :
         (HasEnvelope(row) /\ ~ExpiredAt(row, now) /\ ~row.user.recovery_mode)
         => /\ get_user_authenticator_type(row, now).signing_method = "python_bot_kms"
            /\ get_user_authenticator_type(row, now).has_active_session
   /\ (/\ SignDispatched
       /\ HasEnvelope(resp.seen.row)
       /\ ~ExpiredAt(resp.seen.row, resp.seen.at)
       /\ ~resp.seen.row.user.recovery_mode
       /\ resp.telegram_id \in DOMAIN users
       /\ users[resp.telegram_id].kms_encrypted_session_key
             = resp.seen.row.user.kms_encrypted_session_key
       /\ decrypt_session_keys(resp.seen.row.user.kms_encrypted_session_key).ok)
      => \/ /\ resp.status = 200
            /\ resp.body.signed_xdr.credentials.sub_org_id
                  = resp.seen.row.tw.turnkey_sub_org_id
            /\ resp.body.signed_xdr.credentials.key_id = resp.seen.row.tw.turnkey_key_id
         \/ resp.status = 500 /\ resp.body.error = "UpstreamAuthorityFailure"

-----------------------------------------------------------------------------
(* Properties of the recovery overlay *)

AccessRead == resp.op = "check_user_access" /\ "row" \in DOMAIN resp.seen

\* the read found an overlay (recovery_mode, an organization id and an expiry T+1h)
OverlayRead ==
   /\ AccessRead
   /\ resp.seen.row.user.recovery_mode
   /\ resp.seen.row.user.recovery_org_id # NULL
   /\ resp.seen.row.user.recovery_session_expires # NullTime

\* user u holds an overlay whose expiry T+1h lies ahead of the clock
OverlayAhead(u) ==
   /\ users[u].recovery_mode
   /\ users[u].recovery_org_id # NULL
   /\ users[u].recovery_session_expires # NullTime
   /\ now < users[u].recovery_session_expires

\* the step taken is the UPDATE of a /disable_recovery command of user u
DisabledBy(u) ==
   \E slot \in BotSlots :
      /\ botReq[slot] = Idle
      /\ botReq'[slot] # Idle
      /\ botReq'[slot].command = "disable_recovery"
      /\ botReq'[slot].telegram_id = u

(* C5, the part before T+1h: an overlay created at T is honored by every   *)
(* read before T+1h, so while the clock is before T+1h no step but the     *)
(* user's own disable command takes the overlay away (a later /recover     *)
(* replaces it by another overlay).                                        *)
C5_OverlayHonoredBeforeExpiry ==
   [][ \A u \in DOMAIN users :
          (OverlayAhead(u) /\ ~DisabledBy(u))
             => users'[u].recovery_mode /\ users'[u].recovery_org_id # NULL ]_vars

-----------------------------------------------------------------------------
(* Properties of the envelope key service *)

(* C6: decrypting what encryptSessionKeys made of a key pair, under the    *)
(* same context, returns exactly that pair; under another context it fails *)
(* and returns no key pair.                                                *)
C6_RoundTrip ==
   kmsOp.pc = "opened" =>
      IF NodeContext(kmsOp.openedUnder) = NodeContext(kmsOp.sealedUnder)
      THEN kmsOp.result.ok /\ kmsOp.result.keys = kmsOp.pair
      ELSE /\ ~kmsOp.result.ok
           /\ kmsOp.result.error = "InvalidCiphertextException"
           /\ kmsOp.result.keys = KeyPair(UndefinedText, UndefinedText)

\* a pair with a quote and a backslash in it came back from a round trip
C6_Witness ==
   /\ kmsOp.pc = "opened"
   /\ kmsOp.result.ok
   /\ kmsOp.pair.apiPublicKey = << "\"", "\\" >>
   /\ kmsOp.result.keys = kmsOp.pair

-----------------------------------------------------------------------------
(* Properties of create-session *)

CreateReplied == resp.op = "create-session"

CreateSucceeded == CreateReplied /\ resp.status = 200

(* C7: the context create-session encrypts under equals the context the    *)
(* signer decrypts under, whatever the environment setting, so every       *)
(* session create-session stores is decryptable by the signer.             *)
C7_ContextsMatch ==
   (CreateSucceeded /\ resp.seen.stored.telegramId \in DOMAIN users)
   => /\ NodeContext(nodeEnv) = PythonContext
      /\ decrypt_session_keys(
            users[resp.seen.stored.telegramId].kms_encrypted_session_key).ok

(* C8: a create-session request whose ephemeral private key is missing or  *)
(* malformed is rejected without any call to the custody authority (a      *)
(* request waiting for the response text is one the authority has taken).  *)
C8_MalformedKeyNeverReachesAuthority ==
   /\ (CreateReplied /\ ~ValidEphemeralKey(resp.seen.request.ephemeralPrivateKey))
       => resp.status # 200
   /\ \A slot \in DOMAIN createReq :
         (createReq[slot] # Idle /\ createReq[slot].pc = "text")
            => ValidEphemeralKey(createReq[slot].request.ephemeralPrivateKey)

\* the texts that reach the service log
LoggedTexts ==
   { log[i][2] : i \in { j \in DOMAIN log : /\ Len(log[j]) >= 2
                                            /\ log[j][1] = "EphemeralPrivateKey received:" } }
   \cup { log[i][2].ephemeralPrivateKey :
             i \in { j \in DOMAIN log : /\ Len(log[j]) >= 2
                                        /\ log[j][1] = "Received request payload:" } }

SessionKeys == { SessionKey(n) : n \in 1..MaxSessions } \cup { PriorSessionKey }

StoredTexts ==
   UNION { { users[tid].kms_encrypted_session_key,
             users[tid].temp_api_public_key,
             users[tid].temp_api_private_key } : tid \in DOMAIN users }

(* C9: in create-session neither the decrypted API private key nor the     *)
(* caller's ephemeral private key is ever written to the store or to a     *)
(* log; only the envelope-encrypted form is persisted.                     *)
C9_PrivateKeysNeverLoggedOrStored ==
   /\ \A text \in LoggedTexts : text \notin SessionKeys /\ ~ValidEphemeralKey(text)
   /\ CreateSucceeded =>
         \A text \in StoredTexts :
            /\ text # resp.seen.request.ephemeralPrivateKey
            /\ resp.seen.stored.telegramId \in DOMAIN users
               => text \notin { SessionKey(n) : n \in 1..MaxSessions }

(* C10: after a successful create-session the user's record holds exactly  *)
(* one credential shape, the new Envelope Session: the Legacy Direct keys  *)
(* are cleared by the write that stores the session.                       *)
C10_PriorShapeCleared ==
   (CreateSucceeded /\ resp.seen.stored.telegramId \in DOMAIN users)
   => LET u == users[resp.seen.stored.telegramId]
      IN /\ u.kms_encrypted_session_key = resp.seen.stored.encryptedData
         /\ u.kms_key_id = resp.seen.stored.keyId
         /\ u.temp_api_public_key = NullText
         /\ u.temp_api_private_key = NullText

-----------------------------------------------------------------------------
(* Properties of the session life cycle *)

OverlayFields(u) ==
   [recovery_mode |-> u.recovery_mode,
    recovery_org_id |-> u.recovery_org_id,
    recovery_session_expires |-> u.recovery_session_expires]

NoOverlay ==
   [recovery_mode |-> FALSE, recovery_org_id |-> NULL,
    recovery_session_expires |-> NullTime]

(* C11: after a create-session that responds success for a user, that      *)
(* user's Recovery Overlay is cleared: recovery_mode is false and          *)
(* recovery_org_id and recovery_session_expires are null.                  *)
C11_ReauthClearsOverlay ==
   (CreateSucceeded /\ resp.seen.stored.telegramId \in DOMAIN users)
   => OverlayFields(users[resp.seen.stored.telegramId]) = NoOverlay

\* an Organization Record with this organization id belongs to this user
OwnedBy(tid, org) ==
   \E w \in wallets : w.telegram_id = tid /\ w.turnkey_sub_org_id = org

(* C12: a recovery command of user U for organization id O activates the   *)
(* overlay only if an Organization Record with id O belongs to U; when O   *)
(* is unknown or belongs to another user, no user's recovery_mode,         *)
(* recovery_org_id or recovery_session_expires changes.                    *)
C12_RecoverOnlyOwnOrganization ==
   [][ /\ \A u \in DOMAIN users :
            (users'[u].recovery_mode /\ OverlayFields(users'[u]) # OverlayFields(users[u]))
               => OwnedBy(u, users'[u].recovery_org_id)
       /\ (resp'.op = "recover" /\ resp'.reply # "activated")
            => \A u \in DOMAIN users : OverlayFields(users'[u]) = OverlayFields(users[u])
     ]_vars

\* the overlay of this user record is active and unexpired at time t
OverlayActive(u, t) ==
   /\ u.recovery_mode
   /\ u.recovery_org_id # NULL
   /\ ~(u.recovery_session_expires # NullTime /\ t > u.recovery_session_expires)

\* the row the resolver would fetch had the user no overlay
WithoutOverlay(row) ==
   [row EXCEPT !.user = [@ EXCEPT !.recovery_mode = FALSE,
                                  !.recovery_org_id = NULL,
                                  !.recovery_session_expires = NullTime]]

(* C13: while a user's Recovery Overlay is active and unexpired, the access *)
(* check hands out the overlay's organization id, the signing method       *)
(* resolved is the one resolved without the overlay, and a transaction     *)
(* signed for the user is signed under the overlay's organization id.      *)
C13_OverlayChangesOnlyOrganization ==
   /\ (OverlayRead /\ OverlayActive(resp.seen.row.user, resp.seen.at))
      => /\ resp.result.org_id = resp.seen.row.user.recovery_org_id
         /\ resp.result.access_mode = "recovery"
   /\ \A tid \in Users : \A row \in ResolverRows(users, wallets, tid) :
         OverlayActive(row.user, now)
         => get_user_authenticator_type(row, now).signing_method
               = get_user_authenticator_type(WithoutOverlay(row), now).signing_method
   /\ (SignResolved /\ OverlayActive(resp.seen.row.user, resp.seen.at))
      => /\ resp.seen.user_info.signing_method
               = get_user_authenticator_type(WithoutOverlay(resp.seen.row),
                                             resp.seen.at).signing_method
         /\ resp.status = 200
            => /\ "sub_org_id" \in DOMAIN resp.body.signed_xdr.credentials
               /\ resp.body.signed_xdr.credentials.sub_org_id
                     = resp.seen.row.user.recovery_org_id

-----------------------------------------------------------------------------
(* Properties of the sign endpoint's replies *)

\* the reply just sent answers a sign request that passed the authorization
\* gate and carried a transaction encoding
SignAdmitted ==
   /\ resp.op = "sign"
   /\ resp.telegram_id # NULL
   /\ resp.body # [error |-> "Missing XDR"]

(* C14: a sign request for a user with no credential record at all and a   *)
(* sign request for a user whose session is expired get the same outcome:  *)
(* both are refused with 401 and requires_login true.                      *)
C14_NotFoundSameAsExpired ==
   SignAdmitted =>
      /\ resp.telegram_id \notin DOMAIN users => RefusedNoActiveSession
      /\ (/\ SignResolved
          /\ resp.seen.user_info.signing_method \in { "session_expired", "unknown" })
         => RefusedNoActiveSession

\* the case of the gate a header falls in at time t
GateCase(header, t) ==
   IF header.scheme # "Bearer" THEN "missing or malformed header"
   ELSE IF header.token.signed_with # JwtSecret THEN "bad signature"
   ELSE IF header.token.exp <= t THEN "expired token"
   ELSE "accepted"

GateHeaders == { i.header : i \in SignInputs }

(* C15: the authorization gate rejects a missing or malformed header, an   *)
(* expired token and a token with a bad signature, and no two of these     *)
(* three cases produce the same response.                                  *)
C15_GateCasesDistinct ==
   \A h1 \in GateHeaders, h2 \in GateHeaders :
      /\ GateCase(h1, now) # "accepted" => AuthorizationGate(h1, now).status = 401
      /\ (/\ GateCase(h1, now) # "accepted"
          /\ GateCase(h2, now) # "accepted"
          /\ GateCase(h1, now) # GateCase(h2, now))
         => AuthorizationGate(h1, now) # AuthorizationGate(h2, now)

(* C16: every sign request gets exactly one status: 401 when the bearer    *)
(* credential is bad or the user has no valid session, 400 when the        *)
(* transaction encoding is missing or malformed, 500 only for a failure    *)
(* met while signing, success otherwise; a success reply carries           *)
(* signed_xdr, hash, fee and the resolved signing_method.                  *)
C16_SignStatusCodes ==
   resp.op = "sign" =>
      /\ resp.status \in { 200, 400, 401, 500 }
      /\ resp.telegram_id = NULL => resp.status = 401
      /\ (SignAdmitted /\ resp.telegram_id \notin DOMAIN users) => resp.status = 401
      /\ (SignResolved /\ ~resp.seen.user_info.has_active_session) => resp.status = 401
      /\ resp.status = 401 =>
            \/ resp.telegram_id = NULL
            \/ resp.telegram_id \notin DOMAIN users
            \/ SignResolved /\ ~resp.seen.user_info.has_active_session
      /\ resp.status = 400 => resp.body.error \in { "Missing XDR", "Invalid XDR" }
      /\ resp.status = 500 => SignResolved /\ resp.seen.user_info.has_active_session
      /\ resp.status = 200 =>
            /\ { "signed_xdr", "hash", "fee", "signing_method" } \subseteq DOMAIN resp.body
            /\ resp.body.signing_method = resp.seen.user_info.signing_method

\* a user row with the legacy session identifier and migration marker only
LegacyMarkerOnly(row) ==
   /\ row.user.turnkey_session_id # NULL
   /\ HasLegacyMarker(row)
   /\ row.tw = NoWalletColumns
   /\ ~Truthy(row.user.kms_encrypted_session_key)
   /\ ~Truthy(row.user.temp_api_public_key)
   /\ ~Truthy(row.user.temp_api_private_key)

(* C17: for a user with a legacy session identifier and migration marker   *)
(* but no organization record, no Envelope Session ciphertext and no key   *)
(* fields, resolve returns python_bot_legacy with has_active_session       *)
(* false, and sign is refused with 401 'No active session'.                *)
C17_LegacyMarkerInactive ==
   /\ \A row \in StoreRows :
         LegacyMarkerOnly(row)
         => /\ get_user_authenticator_type(row, now).signing_method = "python_bot_legacy"
            /\ get_user_authenticator_type(row, now).authenticator_type = "legacy"
            /\ ~get_user_authenticator_type(row, now).has_active_session
   /\ (SignResolved /\ LegacyMarkerOnly(resp.seen.row))
      => /\ RefusedNoActiveSession
         /\ resp.body.signing_method = "python_bot_legacy"
         /\ "signed_xdr" \notin DOMAIN resp.body

\* a sign request of such a user was refused
C17_Witness ==
   /\ SignResolved
   /\ LegacyMarkerOnly(resp.seen.row)
   /\ resp.status = 401
   /\ resp.body.signing_method = "python_bot_legacy"

-----------------------------------------------------------------------------
(* Properties of session creation *)

\* the handler reads the clock and computes the expiry in this step
CreatePrepared(slot) ==
   /\ createReq[slot] # Idle /\ createReq[slot].pc = "clock"
   /\ createReq'[slot] # Idle /\ createReq'[slot].pc = "kms"

\* this step answers success to a request made for user tid
CreateStores(tid) ==
   /\ resp'.op = "create-session"
   /\ resp'.status = 200
   /\ resp'.seen.stored.telegramId = tid

\* the record holds an Envelope Session whose expiry lies ahead of the clock
HoldsLiveEnvelope(tid) ==
   /\ users[tid].kms_encrypted_session_key \notin { NullText, << >> }
   /\ users[tid].kms_key_id # NULL
   /\ users[tid].session_expiry # NullTime
   /\ now < users[tid].session_expiry

(* C18: a create-session request that reads the clock at time t with       *)
(* requested time-to-live s stores the session expiry t + s on success,    *)
(* and while the record holds that session every resolve for the user at a *)
(* time before t + s returns python_bot_kms with has_active_session true.  *)
C18_ExpiryIsNowPlusTtl ==
   /\ [][ \A slot \in CreateSlots :
             CreatePrepared(slot) =>
                createReq'[slot].sessionExpiry
                   = now + createReq'[slot].request.body.parameters.expirationSeconds
        ]_vars
   /\ [][ \A tid \in Users :
             CreateStores(tid) =>
                /\ users'[tid].session_expiry = resp'.seen.stored.sessionExpiry
                /\ users'[tid].kms_encrypted_session_key = resp'.seen.stored.encryptedData
                /\ users'[tid].kms_key_id = resp'.seen.stored.keyId
                /\ users'[tid].turnkey_session_id = resp'.seen.stored.sessionId
        ]_vars
   /\ [](\A tid \in Users :
            HoldsLiveEnvelope(tid) =>
               \A row \in ResolverRows(users, wallets, tid) :
                  /\ get_user_authenticator_type(row, now).signing_method
                        = "python_bot_kms"
                  /\ get_user_authenticator_type(row, now).has_active_session)

\* a user got a new session, and time has passed within its life
C18_Witness ==
   /\ users["U1"].turnkey_session_id = SessionId(1)
   /\ HoldsLiveEnvelope("U1")
   /\ users["U1"].session_created_at < now
   /\ \E row \in ResolverRows(users, wallets, "U1") :
         get_user_authenticator_type(row, now).has_active_session

\* the stored session fields of a user record
SessionFields(u) ==
   [ciphertext |-> u.kms_encrypted_session_key,
    key_reference |-> u.kms_key_id,
    session_id |-> u.turnkey_session_id,
    expiry |-> u.session_expiry]

\* the session fields one create-session request holds ready to store
RequestFields(r) ==
   [ciphertext |-> r.encryptedData,
    key_reference |-> r.keyId,
    session_id |-> r.sessionId,
    expiry |-> r.sessionExpiry]

\* ciphertext and session id stem from the same issued session
SameIssue(f) ==
   \E opened \in { decryptSessionKeys(f.ciphertext, nodeEnv) } :
      /\ opened.ok
      /\ \E n \in 0..(MaxSessions + 1) :
            /\ f.session_id = SessionId(n)
            /\ opened.keys.apiPrivateKey
                  = IF n = 0 THEN PriorSessionKey ELSE SessionKey(n)

(* C19: under any interleaving of create-session requests for one user,    *)
(* the stored ciphertext, key reference, session id and expiry always all  *)
(* come from one single request: every write replaces all four by the      *)
(* values of one request, and no step moves the expiry of a stored session *)
(* later while keeping its ciphertext.                                     *)
C19_SessionFromOneRequest ==
   /\ [][ \A tid \in Users :
             SessionFields(users'[tid]) # SessionFields(users[tid]) =>
                /\ \E slot \in CreateSlots :
                      /\ createReq[slot] # Idle
                      /\ createReq[slot].pc = "update"
                      /\ createReq[slot].telegramId = tid
                      /\ SessionFields(users'[tid]) = RequestFields(createReq[slot])
                /\ users'[tid].session_expiry > users[tid].session_expiry
                   => users'[tid].kms_encrypted_session_key
                         # users[tid].kms_encrypted_session_key
        ]_vars
   /\ [](\A tid \in Users :
            Truthy(users[tid].kms_encrypted_session_key)
            => SameIssue(SessionFields(users[tid])))

\* with two requests in flight, the one prepared first was stored last
C19_Witness ==
   /\ CreateSucceeded
   /\ issued = 2
   /\ resp.seen.stored.sessionId = SessionId(1)
   /\ users["U1"].turnkey_session_id = SessionId(1)
   /\ \A slot \in CreateSlots : createReq[slot] = Idle

-----------------------------------------------------------------------------
(* Frame of the recovery operations *)

\* a user record without its overlay fields
NonOverlayFields(u) ==
   [ f \in DOMAIN u \ { "recovery_mode", "recovery_org_id", "recovery_session_expires" }
        |-> u[f] ]

\* the reply just sent is that of a recovery command or of the access check
RecoveryReplied ==
   resp.op \in { "recover", "disable_recovery", "recovery_status", "check_user_access" }

\* this step leaves the Organization Records, every field of user t other
\* than the overlay's and every other user's record as they were
OverlayFrameOf(t) ==
   /\ wallets' = wallets
   /\ \A tid \in DOMAIN users :
         /\ NonOverlayFields(users'[tid]) = NonOverlayFields(users[tid])
         /\ tid # t => users'[tid] = users[tid]

(* C20: activating a Recovery Overlay, auto-clearing it on expiry and      *)
(* disabling it change only recovery_mode, recovery_org_id and             *)
(* recovery_session_expires of that user: the credential shape fields, the *)
(* session expiry and the Organization Records stay as they were, and so   *)
(* does every other user's record.                                         *)
C20_OverlayFrame ==
   [][ /\ RecoveryReplied' => OverlayFrameOf(resp'.telegram_id)
       /\ \A k \in BotSlots :
             botReq'[k] # botReq[k]
                => OverlayFrameOf((IF botReq[k] # Idle THEN botReq[k]
                                                     ELSE botReq'[k]).telegram_id)
     ]_vars

\* an expired overlay was auto-cleared and the user's keys and expiry stayed
C20_Witness ==
   /\ resp.op = "check_user_access"
   /\ resp.result.access_status = "recovery_expired"
   /\ OverlayFields(users[resp.telegram_id]) = NoOverlay
   /\ NonOverlayFields(users[resp.telegram_id]) = NonOverlayFields(resp.seen.row.user)
   /\ users[resp.telegram_id].session_expiry # NullTime

-----------------------------------------------------------------------------
(* Frame of the sign endpoint *)

\* this step is a step of the sign handler: it starts a request, finishes
\* one or replies to one
SignStepTaken == signReq' # signReq \/ resp'.op = "sign"

(* C21: a sign request never writes to the shared store: whether it        *)
(* succeeds or fails (decrypt failure and custody-authority failure        *)
(* included), the users table with its credential and overlay fields and   *)
(* the organization records are the same before and after each of its      *)
(* steps.                                                                  *)
C21_SignNeverWrites ==
   [][ SignStepTaken => users' = users /\ wallets' = wallets ]_vars

\* a sign request failed at the envelope decrypt and the ciphertext is
\* still stored
C21_Witness ==
   /\ SignDispatched
   /\ resp.status = 500
   /\ resp.body.error = "Session key decryption failed"
   /\ Truthy(users[resp.telegram_id].kms_encrypted_session_key)
   /\ users[resp.telegram_id] = resp.seen.row.user

-----------------------------------------------------------------------------
(* Properties of the envelope decrypt inside a sign request *)

\* a decrypt result is a complete key pair or a failure without keys
CompleteOrFailed(result) ==
   IF result.ok
   THEN /\ result.keys.apiPublicKey # UndefinedText
        /\ result.keys.apiPrivateKey # UndefinedText
   ELSE /\ result.error # ""
        /\ result.keys = KeyPair(UndefinedText, UndefinedText)

-----------------------------------------------------------------------------
(* The resolution order *)

\* a nullable text column holds a value
Populated(text) == text # NullText

Resolution(type, method, signable) ==
   [authenticator_type |-> type, signing_method |-> method, signable |-> signable]

\* the reference order over a user record and the organization records:
\* the first of the five cases that matches
ReferenceOrder(u, ws, tid) ==
   IF Populated(u.kms_encrypted_session_key) /\ u.kms_key_id # NULL
   THEN Resolution("session_keys", "python_bot_kms", TRUE)
   ELSE IF \E w \in ws : /\ w.telegram_id = tid
                         /\ w.is_active = TRUE
                         /\ Populated(w.turnkey_api_public_key)
   THEN Resolution("telegram_cloud", "python_bot_tg_cloud", TRUE)
   ELSE IF Populated(u.temp_api_public_key) /\ Populated(u.temp_api_private_key)
   THEN Resolution("legacy", "python_bot_legacy", TRUE)
   ELSE IF u.source_old_db # NULL
   THEN Resolution("legacy", "python_bot_legacy", FALSE)
   ELSE Resolution("unknown", "unknown", FALSE)

\* what resolve returns for a reference result once the expiry is applied
AgreesWithReference(info, ref, expired) ==
   /\ info.authenticator_type = ref.authenticator_type
   /\ info.has_active_session = (ref.signable /\ ~expired)
   /\ info.signing_method =
         IF ref.signable /\ expired THEN "session_expired" ELSE ref.signing_method

(* C23: for every combination of populated fields resolve is               *)
(* first-match-wins in the order (1) Envelope Session ciphertext with key  *)
(* reference, (2) Cloud-Stored public key on the active Organization       *)
(* Record, (3) both Legacy Direct keys, (4) migrated-legacy marker only    *)
(* (legacy, session inactive), (5) none of these (no signable method): the *)
(* shape it reports is the one of that reference order for every input,    *)
(* and the expiry check applies to that shape.                             *)
C23_ResolveFirstMatchWins ==
   /\ \A tid \in Users : \A row \in ResolverRows(users, wallets, tid) :
         AgreesWithReference(get_user_authenticator_type(row, now),
                             ReferenceOrder(users[tid], wallets, tid),
                             ExpiredAt(row, now))
   /\ SignResolved =>
         \E ref \in { ReferenceOrder(resp.seen.row.user, wallets, resp.telegram_id) } :
            /\ AgreesWithReference(resp.seen.user_info, ref,
                                   ExpiredAt(resp.seen.row, resp.seen.at))
            /\ resp.status = 200 => resp.body.signing_method = ref.signing_method

\* a sign request resolved a user with all three key-bearing shapes
\* populated to the Envelope Session
C23_Witness ==
   /\ SignResolved
   /\ HasEnvelope(resp.seen.row) /\ HasCloudKeys(resp.seen.row)
   /\ HasLegacyDirect(resp.seen.row) /\ HasLegacyMarker(resp.seen.row)
   /\ resp.seen.user_info.signing_method = "python_bot_kms"

-----------------------------------------------------------------------------
(* The Envelope Session and the Organization Record *)

HasActiveOrganization(tid) ==
   \E w \in wallets : w.telegram_id = tid /\ w.is_active = TRUE

(* C24: resolve returns the Envelope Session with has_active_session true  *)
(* only for a user who has an active Organization Record, also when        *)
(* create-session stored the session through an inactive Organization      *)
(* Record; no sign request is resolved so for a user without one.          *)
C24_EnvelopeNeedsActiveOrganization ==
   /\ \A tid \in Users : \A row \in ResolverRows(users, wallets, tid) :
         (/\ get_user_authenticator_type(row, now).authenticator_type = "session_keys"
          /\ get_user_authenticator_type(row, now).has_active_session)
         => HasActiveOrganization(tid)
   /\ (/\ SignResolved
       /\ resp.seen.user_info.authenticator_type = "session_keys"
       /\ resp.seen.user_info.has_active_session)
      => resp.seen.row.tw.is_active = TRUE

-----------------------------------------------------------------------------
(* The session flag *)

\* one of the three key-bearing shapes is populated on the fetched row
SignableShape(row) == HasEnvelope(row) \/ HasCloudKeys(row) \/ HasLegacyDirect(row)

(* C25: has_active_session is true exactly when a signable shape resolved  *)
(* and either no expiry is recorded or now < expiry; at now equal to the   *)
(* expiry the session is not valid.                                        *)
C25_ActiveIffBeforeExpiry ==
   /\ \A tid \in Users : \A row \in ResolverRows(users, wallets, tid) :
         get_user_authenticator_type(row, now).has_active_session
         <=> /\ SignableShape(row)
             /\ row.user.session_expiry = NullTime \/ now < row.user.session_expiry
   /\ SignResolved =>
         (resp.seen.user_info.has_active_session
          <=> /\ SignableShape(resp.seen.row)
              /\ \/ resp.seen.row.user.session_expiry = NullTime
                 \/ resp.seen.at < resp.seen.row.user.session_expiry)

-----------------------------------------------------------------------------
(* Lazy detection of the session expiry *)

\* the reply just sent is that of a sign request whose resolve found the
\* session expired
ResolvedExpired ==
   SignResolved /\ resp.seen.user_info.signing_method = "session_expired"

\* this step is the resolver's expiry check finding the session expired
FindsExpired ==
   /\ signReq # Idle
   /\ signReq.pc = "clock"
   /\ signReq' # Idle
   /\ signReq'.pc = "refuse"
   /\ signReq'.user_info.signing_method = "session_expired"

(* C26: session expiry is detected only lazily at resolve: the passing of  *)
(* time changes no record, and no step of a sign request, the resolver's   *)
(* SELECT and its expiry check included, changes the users table or the    *)
(* organization records, also when the check finds the session expired     *)
(* (the expired ciphertext stays stored).                                  *)
C26_ExpiryDetectedLazily ==
   [][ /\ now' # now => users' = users /\ wallets' = wallets
       /\ SignStepTaken => users' = users /\ wallets' = wallets
       /\ FindsExpired => users' = users /\ wallets' = wallets
     ]_vars

\* the expiry passed, a later resolve found the Envelope Session expired,
\* and the ciphertext is still stored
C26_Witness ==
   /\ ResolvedExpired
   /\ HasEnvelope(resp.seen.row)
   /\ resp.status = 401
   /\ users[resp.telegram_id].kms_encrypted_session_key
         = resp.seen.row.user.kms_encrypted_session_key
   /\ users[resp.telegram_id].session_expiry < resp.seen.at

-----------------------------------------------------------------------------
(* Leaving the expired state *)

\* this step is the store write of a create-session that succeeds for tid
ReauthSucceeds(tid) ==
   \E slot \in CreateSlots :
      /\ createReq[slot] # Idle
      /\ createReq[slot].pc = "update"
      /\ createReq'[slot] # createReq[slot]
      /\ createReq[slot].telegramId = tid

(* C27: once resolve reports a user's session as expired, no operation     *)
(* other than a create-session that succeeds for that user (not a sign     *)
(* request, a recovery command, disabling recovery or the stale-session    *)
(* cleanup) makes resolve report has_active_session true for that user.    *)
C27_ActiveOnlyThroughReauth ==
   [][ \A tid \in Users :
          (/\ \E row \in ResolverRows(users, wallets, tid) :
                 get_user_authenticator_type(row, now).signing_method = "session_expired"
           /\ \E row \in ResolverRows(users', wallets', tid) :
                 get_user_authenticator_type(row, now').has_active_session)
          => ReauthSucceeds(tid)
     ]_vars

-----------------------------------------------------------------------------
(* Failure of create-session *)

\* the lines of the step's log under this label
Logged(lines, label) ==
   { lines[i][2] : i \in { j \in DOMAIN lines : Len(lines[j]) >= 2 /\ lines[j][1] = label } }

\* the messages of the catch clause's line, the one-value line a step ends on
FailureLogged(lines) ==
   IF /\ lines # << >>
      /\ Len(lines[Len(lines)]) = 1
      /\ lines[Len(lines)][1][1] = "Login auth failed: "
   THEN { lines[Len(lines)][1][2] } ELSE { }

\* the request is one the handler cannot complete, whatever the world does
DefectiveRequest(req) ==
   \/ ~validateInitData(req.initData)
   \/ req.ephemeralPrivateKey \in { EphShort, EphNonHex, UndefinedText }
   \/ "expirationSeconds" \notin DOMAIN req.body.parameters
   \/ \A w \in wallets : w.turnkey_sub_org_id # req.body.organizationId

\* this step is the UPDATE of the request in this slot
CreateWrites(slot) ==
   createReq[slot] # Idle /\ createReq[slot].pc = "update" /\ createReq'[slot] # createReq[slot]

\* this step is the one the request in this slot takes after its UPDATE
CreateAfterWrite(slot) ==
   createReq[slot] # Idle /\ createReq[slot].pc = "reply" /\ createReq'[slot] # createReq[slot]

\* this step ends the request of some slot and starts none
CreateEnds ==
   /\ \E slot \in CreateSlots : createReq[slot] # Idle /\ createReq'[slot] = Idle
   /\ \A slot \in CreateSlots : createReq'[slot] \in { createReq[slot], Idle }

(* C28: if create-session fails at any step (custody authority error,      *)
(* malformed ephemeral key, bundle decrypt error, organization id with no  *)
(* owner, missing time-to-live, envelope encrypt failure, invalid          *)
(* initData), the response is an error and every user's stored record is   *)
(* exactly what it was before the request: no step of the handler but its  *)
(* UPDATE writes, a step that fails replies with the error and ends the    *)
(* request, and the UPDATE is followed by the success reply only.          *)
C28_FailedCreateLeavesStore ==
   /\ [][ /\ (\A slot \in CreateSlots : ~CreateWrites(slot)) => users' = users
          /\ \A slot \in CreateSlots :
                /\ CreateWrites(slot)
                   => createReq'[slot] # Idle /\ createReq'[slot].pc = "reply"
                /\ CreateAfterWrite(slot)
                   => /\ resp'.op = "create-session" /\ resp'.status = 200
                      /\ createReq'[slot] = Idle
          /\ (\/ FailureLogged(log') # { }
              \/ [error |-> "rejected"] \in Logged(log', "Turnkey raw response:"))
             => /\ resp'.op = "create-session"
                /\ resp'.status = 500
                /\ resp'.body = [error |-> CHOOSE e \in FailureLogged(log') : TRUE]
                /\ CreateEnds
                /\ users' = users
          /\ (resp'.op = "create-session" /\ resp'.status # 200)
             => /\ users' = users
                /\ \A slot \in CreateSlots : createReq'[slot] \in { createReq[slot], Idle }
                /\ DOMAIN resp'.body = { "error" }
        ]_vars
   /\ [](CreateReplied =>
            /\ resp.status \in { 200, 403, 500 }
            /\ DefectiveRequest(resp.seen.request) => resp.status # 200)

\* the authority issued a session, the request then failed, and the user
\* still holds the session they had
C28_Witness ==
   /\ CreateReplied
   /\ resp.status = 500
   /\ resp.body.error \in { "bundle decryption failed", "KMSInternalException",
                            "Invalid time value", "User not found" }
   /\ issued > 0
   /\ users["U1"].turnkey_session_id = "S0"
   /\ users["U1"].session_expiry = 2

-----------------------------------------------------------------------------
(* The integrity token of create-session *)

\* this step replies to a create-session request whose initData carries a
\* hash made under another bot token
ForgedReplied ==
   /\ resp'.op = "create-session"
   /\ resp'.seen.request.initData = ForgedInitData

(* C29: a create-session request whose initData fails validation is        *)
(* rejected with 403 before any call to the custody authority, any         *)
(* envelope encryption and any store write: the step sends nothing, issues *)
(* no session, prepares nothing to store and changes no record.            *)
C29_ForgedInitDataRejectedFirst ==
   /\ [][ ForgedReplied =>
             /\ resp'.status = 403
             /\ resp'.body = [error |-> "Invalid initData"]
             /\ turnkeySent' = { }
             /\ Logged(log', "Body sent to Turnkey:") = { }
             /\ issued' = issued
             /\ createReq' = createReq
             /\ users' = users
             /\ wallets' = wallets
        ]_vars
   /\ []((CreateReplied /\ resp.seen.request.initData = ForgedInitData)
            => resp.status = 403 /\ "stored" \notin DOMAIN resp.seen)

\* after a session had been issued and stored, a request with forged
\* initData was turned down
C29_Witness ==
   /\ CreateReplied
   /\ resp.seen.request.initData = ForgedInitData
   /\ resp.status = 403
   /\ issued = 1
   /\ users["U1"].turnkey_session_id = SessionId(1)

-----------------------------------------------------------------------------
(* Who may activate a Recovery Overlay *)

\* resolve reports an active session for this user in the current state
SessionActive(tid) ==
   \E row \in ResolverRows(users, wallets, tid) :
      get_user_authenticator_type(row, now).has_active_session

(* C30: a Recovery Overlay is activated only for a user whose session is   *)
(* active at that moment: a recovery command of a user with no valid       *)
(* session is not answered 'activated' and does not set recovery_mode.     *)
C30_OverlayOnlyWhenSessionActive ==
   [][ \A tid \in Users :
          (\/ ~users[tid].recovery_mode /\ users'[tid].recovery_mode
           \/ /\ resp'.op = "recover"
              /\ resp'.telegram_id = tid
              /\ resp'.reply = "activated")
          => SessionActive(tid)
     ]_vars

-----------------------------------------------------------------------------
(* Explicit disable of the recovery overlay *)

\* the organization ids of this user's active Organization Records
NormalOrganizations(tid) ==
   { w.turnkey_sub_org_id : w \in { x \in wallets : x.telegram_id = tid /\ x.is_active = TRUE } }

\* this step is the statement a new command of this kind starts with
Starts(slot, command) ==
   /\ botReq[slot] = Idle
   /\ botReq'[slot] # Idle
   /\ botReq'[slot].command = command

\* what the SELECT of the access check may return for this user in this
\* state: the user's record joined with one of the active Organization
\* Records, with none when the user has no Organization Record at all, and
\* no row when the user has Organization Records none of which is active
ReadsStore(row, tid) ==
   IF row = NoRow
   THEN NormalOrganizations(tid) = { } /\ \E w \in wallets : w.telegram_id = tid
   ELSE /\ row.user = users[tid]
        /\ \/ row.turnkey_sub_org_id \in NormalOrganizations(tid)
           \/ /\ row.turnkey_sub_org_id = NULL
              /\ \A w \in wallets : w.telegram_id # tid

(* C31: the UPDATE of an explicit disable leaves the overlay cleared       *)
(* (recovery_mode false, recovery_org_id and recovery_session_expires      *)
(* null) whatever the state before; disabling twice gives the same state   *)
(* as disabling once; an access check reads the record as it is stored     *)
(* when its SELECT runs, and one that read a cleared overlay returns the   *)
(* normal organization id (or 'No wallet found'), never the overlay's.     *)
C31_DisableClearsAndIsIdempotent ==
   /\ [](\A tid \in Commanders :
            /\ OverlayFields(ClearRecovery(users, tid)[tid]) = NoOverlay
            /\ ClearRecovery(ClearRecovery(users, tid), tid) = ClearRecovery(users, tid))
   /\ [][ \A slot \in BotSlots :
             /\ Starts(slot, "disable_recovery")
                => /\ users' = ClearRecovery(users, botReq'[slot].telegram_id)
                   /\ OverlayFields(users'[botReq'[slot].telegram_id]) = NoOverlay
             /\ Starts(slot, "check_user_access")
                => ReadsStore(botReq'[slot].row, botReq'[slot].telegram_id)
        ]_vars
   /\ []((AccessRead /\ OverlayFields(resp.seen.row.user) = NoOverlay)
            => /\ resp.result.org_id = resp.seen.row.turnkey_sub_org_id
               /\ resp.result.access_mode
                     = IF resp.seen.row.turnkey_sub_org_id # NULL
                       THEN "normal" ELSE "No wallet found")

\* a disable has cleared, and not yet answered, an overlay that an access
\* check in flight had read before it
C31_Witness ==
   \E s1 \in BotSlots, s2 \in BotSlots :
      /\ At(s1, "disable_recovery", "reply")
      /\ botReq[s1].telegram_id = "U1"
      /\ At(s2, "check_user_access", "return")
      /\ botReq[s2].telegram_id = "U1"
      /\ botReq[s2].seen.row.user.recovery_mode
      /\ botReq[s2].result.access_mode = "recovery"
      /\ OverlayFields(users["U1"]) = NoOverlay

-----------------------------------------------------------------------------
(* The errors of the envelope decrypt *)

(* C32: when a context mismatch makes decrypt fail, the error signalled    *)
(* differs from the error signalled for a corrupt ciphertext: a decrypt of *)
(* a damaged ciphertext under the right context never fails with the error *)
(* a decrypt of the intact ciphertext under another context fails with.    *)
C32_MismatchDistinctFromCorrupt ==
   (/\ kmsOp.pc = "opened"
    /\ "damage" \in DOMAIN kmsOp
    /\ NodeContext(kmsOp.openedUnder) = NodeContext(kmsOp.sealedUnder))
   => /\ ~kmsOp.result.ok
      /\ \A env \in KmsEnvSettings :
            NodeContext(env) # NodeContext(kmsOp.sealedUnder)
            => /\ ~decryptSessionKeys(kmsOp.sealed.encryptedData, env).ok
               /\ decryptSessionKeys(kmsOp.sealed.encryptedData, env).error
                     # kmsOp.result.error

-----------------------------------------------------------------------------
(* Determinism of the resolver *)

\* what the caller of resolve acts on
Verdict(info) ==
   [signing_method |-> info.signing_method, has_active_session |-> info.has_active_session]

AccessOrganizations(tid) ==
   LET rows == AccessRows(users, wallets, tid)
   IN IF rows = { } THEN { NULL }
      ELSE { AccessDecision(row, now).org_id : row \in rows }

\* the organizations the signing resolver can return for a user in this state
ResolverOrganizations(tid) ==
   { get_user_authenticator_type(row, now).turnkey_sub_org_id :
        row \in ResolverRows(users, wallets, tid) }

\* C34: for every user of the store without an active Recovery Overlay, the
\* organization id of check_user_access equals the turnkey_sub_org_id of
\* get_user_authenticator_type, whether the user has no wallet, only inactive
\* wallets, or an active and an inactive one; the row the SELECT of an access
\* check returns carries an organization the resolver returns in the state
\* the SELECT reads, and the check returns that organization unless the row
\* holds an overlay.
C34_AccessAgreesWithResolver ==
   /\ [](\A tid \in DOMAIN users :
            ~ OverlayActive(users[tid], now)
               => AccessOrganizations(tid) = ResolverOrganizations(tid))
   /\ [][ \A slot \in BotSlots :
             Starts(slot, "check_user_access")
                => (IF botReq'[slot].row = NoRow THEN NULL
                    ELSE botReq'[slot].row.turnkey_sub_org_id)
                      \in ResolverOrganizations(botReq'[slot].telegram_id)
        ]_vars
   /\ [](resp.op = "check_user_access"
            => IF "row" \notin DOMAIN resp.seen
               THEN resp.result.org_id = NULL
               ELSE ~ (/\ resp.seen.row.user.recovery_mode
                       /\ resp.seen.row.user.recovery_org_id # NULL)
                       => resp.result.org_id = resp.seen.row.turnkey_sub_org_id)

\* an access check answered for a user whose only wallet is inactive
C34_Witness ==
   /\ resp.op = "check_user_access"
   /\ resp.telegram_id \in DOMAIN users
   /\ resp.result.org_id = NULL
   /\ NormalOrganizations(resp.telegram_id) = { }
   /\ \E w \in wallets : w.telegram_id = resp.telegram_id /\ w.is_active = FALSE
   /\ ResolverOrganizations(resp.telegram_id) = { NULL }


\* ---------------------------------------------------------------------------
\* C35  A cleanup between the resolve step and the key fetch makes the sign
\*      request fail
\* ---------------------------------------------------------------------------

\* the key material the branch of this method reads from the user's row
KeyMaterial(u, method) ==
   IF method = "python_bot_kms" THEN u.kms_encrypted_session_key
   ELSE u.temp_api_private_key

\* the request in flight resolved to a stored-session method and has not
\* fetched its keys yet, and the key material it resolved on has been cleared
\* from the store since
ClearedInFlight(req) ==
   /\ req # Idle
   /\ req.pc = "dispatch"
   /\ req.user_info.signing_method \in { "python_bot_kms", "python_bot_legacy" }
   /\ Truthy(KeyMaterial(req.seen.row.user, req.user_info.signing_method))
   /\ req.telegram_id \in DOMAIN users
   /\ ~ Truthy(KeyMaterial(users[req.telegram_id], req.user_info.signing_method))

\* the request has fetched its keys and the branch raised on the row
RaisedInFlight(req) ==
   /\ req # Idle
   /\ req.pc = "raise"

\* C35: when the session fields of an Envelope Session or Legacy Direct user
\* are cleared between the resolve step and the key-fetch step of a sign
\* request in flight, the key fetch reads the cleared row and the branch
\* raises on it: the request sends nothing to be signed, and whatever is
\* stored before the handler resumes, its next step ends it with the error of
\* the branch and no signature: the key material is read again from the
\* store after the resolve.
C35_ClearedMidFlightFails ==
   /\ [][ (ClearedInFlight(signReq) /\ signReq' # signReq)
             => /\ RaisedInFlight(signReq')
                /\ ~ Truthy(KeyMaterial(signReq'.user, signReq.user_info.signing_method))
                /\ resp' = NoReply
                /\ turnkeySent' = { } ]_vars
   /\ [][ (RaisedInFlight(signReq) /\ signReq' # signReq)
             => /\ signReq' = Idle
                /\ resp'.op = "sign"
                /\ resp'.status = 500
                /\ resp'.body.error \in { "No KMS session found",
                                          "No Telegram Cloud keys found",
                                          "No legacy session found" }
                /\ (signReq.user_info.signing_method = "python_bot_kms"
                      => resp'.body.error = "No KMS session found")
                /\ (signReq.user_info.signing_method = "python_bot_legacy"
                      => resp'.body.error = "No legacy session found")
                /\ turnkeySent' = { } ]_vars

\* a Legacy Direct request answered after its keys were cleared in flight
C35_Witness ==
   /\ resp.op = "sign"
   /\ resp.status = 500
   /\ resp.body.error = "No legacy session found"
   /\ resp.seen.at # NullTime
   /\ resp.seen.user_info.signing_method = "python_bot_legacy"
   /\ Truthy(resp.seen.row.user.temp_api_private_key)
   /\ ~ Truthy(users[resp.telegram_id].temp_api_private_key)
   /\ signReq = Idle


\* ---------------------------------------------------------------------------
\* C36  The dispatcher is only ever handed a signable method
\* ---------------------------------------------------------------------------

SignableMethods == { "python_bot_kms", "python_bot_tg_cloud", "python_bot_legacy" }

\* C36: whatever row the resolver reads, has_active_session true implies
\* that the method is python_bot_kms, python_bot_tg_cloud or
\* python_bot_legacy; a sign request that reaches the dispatcher carries one
\* of the three, no sign request is answered 'Unsupported signing method',
\* and a success response never carries 'session_expired' or 'unknown'.
C36_DispatchOnlySignable ==
   /\ \A tid \in DOMAIN users : \A row \in ResolverRows(users, wallets, tid) :
         get_user_authenticator_type(row, now).has_active_session
            => get_user_authenticator_type(row, now).signing_method \in SignableMethods
   /\ (signReq # Idle /\ signReq.pc \in { "dispatch", "raise", "sign" })
         => /\ signReq.user_info.has_active_session
            /\ signReq.user_info.signing_method \in SignableMethods
   /\ (resp.op = "sign" /\ resp.status = 200)
         => resp.body.signing_method \in SignableMethods
   /\ (resp.op = "sign" /\ resp.status # 200)
         => resp.body.error # "Unsupported signing method"

\* a request handed to the dispatcher with a signable method was signed, for
\* a user whose record carries an expiry that has not passed
C36_Witness ==
   /\ resp.op = "sign"
   /\ resp.status = 200
   /\ resp.seen.user_info.has_active_session
   /\ resp.body.signing_method = "python_bot_legacy"
   /\ resp.seen.row.user.session_expiry # NullTime
   /\ signReq = Idle


\* ---------------------------------------------------------------------------
\* C37  A create-session success means the owner's record holds the session
\* ---------------------------------------------------------------------------

\* the record of the request's owner holds what the request produced
HoldsSession(us, r) ==
   /\ r.telegramId \in DOMAIN us
   /\ us[r.telegramId].kms_encrypted_session_key = r.encryptedData
   /\ us[r.telegramId].kms_key_id = r.keyId
   /\ us[r.telegramId].turnkey_session_id = r.sessionId
   /\ us[r.telegramId].session_expiry = r.sessionExpiry

\* C37: whenever create-session answers { success: true }, the credential
\* record of the organization's owner holds the ciphertext, key reference,
\* session id and expiry that request produced; success is never reported
\* when the session write matched no user record.
C37_SuccessMeansStored ==
   [][ \A slot \in CreateSlots :
          ( /\ createReq[slot] # Idle
            /\ createReq'[slot] = Idle
            /\ resp'.op = "create-session"
            /\ resp'.status = 200 )
             => HoldsSession(users', createReq[slot].stored) ]_vars


\* ---------------------------------------------------------------------------
\* C38  What a create-session request may change
\* ---------------------------------------------------------------------------

\* the columns the UPDATE of create-session names
SessionColumns ==
   { "kms_encrypted_session_key", "kms_key_id", "turnkey_session_id",
     "session_expiry", "session_created_at" }

\* the users owning an Organization Record with this organization id
OwnersOf(org) == { w.telegram_id : w \in { x \in wallets : x.turnkey_sub_org_id = org } }

\* the two stores differ at most in the session fields of the given users
OnlySessionsOf(owners, us, vs) ==
   /\ DOMAIN vs = DOMAIN us
   /\ \A tid \in DOMAIN us :
         IF tid \in owners
         THEN \A f \in (DOMAIN us[tid]) \ SessionColumns : vs[tid][f] = us[tid][f]
         ELSE vs[tid] = us[tid]

\* C38: a step of a create-session request changes the session fields of at
\* most one user, the owner of the organizationId of the request body; every
\* other user's credential record, every overlay field and every
\* Organization Record is left as it was.
C38_CreateSessionFrame ==
   [][ /\ (createReq' # createReq \/ resp'.op = "create-session")
          => wallets' = wallets
       /\ \A slot \in CreateSlots :
             (createReq[slot] = Idle /\ createReq'[slot] # Idle) => users' = users
       /\ \A slot \in CreateSlots :
             (createReq[slot] # Idle /\ createReq'[slot] # createReq[slot])
                => /\ Cardinality({ tid \in DOMAIN users : users'[tid] # users[tid] }) <= 1
                   /\ OnlySessionsOf(OwnersOf(createReq[slot].request.body.organizationId),
                                     users, users')
       /\ (createReq' = createReq /\ resp'.op = "create-session")
             => users' = users ]_vars

\* a session was written for a user whose Recovery Overlay is set
C38_Witness ==
   /\ resp.op = "create-session"
   /\ resp.status = 200
   /\ resp.seen.stored.telegramId \in DOMAIN users
   /\ users[resp.seen.stored.telegramId].kms_encrypted_session_key
         = resp.seen.stored.encryptedData
   /\ users[resp.seen.stored.telegramId].turnkey_session_id = resp.seen.stored.sessionId
   /\ users[resp.seen.stored.telegramId].recovery_mode
   /\ users[resp.seen.stored.telegramId].recovery_org_id # NULL


\* ---------------------------------------------------------------------------
\* C39  The three overlay fields are set and cleared together
\* ---------------------------------------------------------------------------

\* the overlay fields of a record are all set, or all clear
OverlayWhole(u) ==
   IF u.recovery_mode
   THEN u.recovery_org_id # NULL /\ u.recovery_session_expires # NullTime
   ELSE u.recovery_org_id = NULL /\ u.recovery_session_expires = NullTime

\* the overlay fields a reader fetched, at this point of the handler
FetchedOverlay(r) ==
   IF r.command = "check_user_access" THEN OverlayFields(r.row.user)
   ELSE OverlayFields(r.row)

\* the handler in this slot is a reader that holds its row and has not yet
\* looked at the clock
ReaderAtRow(slot) ==
   /\ (At(slot, "check_user_access", "row") \/ At(slot, "recovery_status", "row"))
   /\ botReq[slot].row # NoRow

\* the handler in this slot is a reader about to run its clearing UPDATE
ReaderAtUpdate(slot) ==
   At(slot, "check_user_access", "update") \/ At(slot, "recovery_status", "update")

\* C39: in every state reached through recovery commands, disable, expiry
\* auto-clear and status reads, recovery_mode is true only if
\* recovery_org_id and recovery_session_expires are both set, and the three
\* are cleared together: a step that changes a user's overlay either is the
\* UPDATE of a recovery command, which sets the three with the expiry one
\* hour after that command's clock reading, or clears the three.  A reader
\* (access check, status) whose clock reading is past the expiry of the
\* overlay it fetched goes on to the clearing UPDATE, which clears the
\* three, and answers that the overlay expired, never with the overlay.
C39_OverlayWholeAndBounded ==
   /\ [](\A tid \in DOMAIN users :
            /\ OverlayWhole(users[tid])
            /\ users[tid].recovery_mode
                  => users[tid].recovery_session_expires <= now + RECOVERY_SESSION_HOURS)
   /\ [][ \A tid \in DOMAIN users :
             OverlayFields(users'[tid]) # OverlayFields(users[tid])
                => \/ \E slot \in BotSlots :
                         /\ At(slot, "recover", "update")
                         /\ botReq'[slot] # botReq[slot]
                         /\ botReq[slot].telegram_id = tid
                         /\ botReq[slot].seen.at <= now
                         /\ OverlayFields(users'[tid])
                               = [recovery_mode |-> TRUE,
                                  recovery_org_id |-> botReq[slot].org_id,
                                  recovery_session_expires |->
                                     botReq[slot].seen.at + RECOVERY_SESSION_HOURS]
                   \/ OverlayFields(users'[tid]) = NoOverlay ]_vars
   /\ [][ \A slot \in BotSlots :
             /\ (/\ ReaderAtRow(slot)
                 /\ botReq'[slot] # botReq[slot]
                 /\ FetchedOverlay(botReq[slot]).recovery_mode
                 /\ FetchedOverlay(botReq[slot]).recovery_org_id # NULL
                 /\ FetchedOverlay(botReq[slot]).recovery_session_expires # NullTime
                 /\ now > FetchedOverlay(botReq[slot]).recovery_session_expires)
                => botReq'[slot] # Idle /\ botReq'[slot].pc = "update"
             /\ (ReaderAtUpdate(slot) /\ botReq'[slot] # botReq[slot])
                => /\ botReq[slot].telegram_id \in DOMAIN users
                      => OverlayFields(users'[botReq[slot].telegram_id]) = NoOverlay
                   /\ botReq'[slot] # Idle
                   /\ botReq'[slot].pc \in { "reply", "return" } ]_vars
   /\ []((/\ AccessRead
          /\ resp.seen.row.user.recovery_mode
          /\ resp.seen.row.user.recovery_org_id # NULL
          /\ resp.seen.row.user.recovery_session_expires # NullTime
          /\ resp.seen.at > resp.seen.row.user.recovery_session_expires)
            => resp.result = Access(resp.seen.row.turnkey_sub_org_id, "normal",
                                    "recovery_expired"))
   /\ []((/\ resp.op = "recovery_status"
          /\ "recovery_mode" \in DOMAIN resp.seen
          /\ resp.seen.recovery_mode
          /\ resp.seen.recovery_session_expires # NullTime
          /\ resp.seen.at > resp.seen.recovery_session_expires)
            => resp.reply = "expired")
   /\ []((resp.op = "check_user_access" /\ "row" \notin DOMAIN resp.seen)
            => resp.result = Access(NULL, "No wallet found", NULL))

\* a read found an overlay past its expiry and cleared its three fields
C39_Witness ==
   /\ resp.op = "check_user_access"
   /\ resp.result.access_status = "recovery_expired"
   /\ resp.seen.row.user.recovery_mode
   /\ resp.seen.row.user.recovery_session_expires < now
   /\ ~ users[resp.telegram_id].recovery_mode
   /\ users[resp.telegram_id].recovery_org_id = NULL
   /\ users[resp.telegram_id].recovery_session_expires = NullTime

====
